---- MODULE Spec2Model ----
(***************************************************************************)
(* A model of the AI-Assistant-Project browser application:                *)
(*   - GoogleAuthService (two implementations kept in the repository: the  *)
(*     PKCE/redirect one and the gapi/GSI token-client one),               *)
(*   - GoogleCalendarService (gapi and REST implementations),              *)
(*   - the App calendar handlers, the MainOrchestrator/PinInputView PIN    *)
(*     gate, and GeminiService's chat session handling,                    *)
(*   - storageService and the saves of instance data issued through        *)
(*     MainOrchestrator.saveInstanceDataCallback.                          *)
(* Each component has its own specification (SpecAuth, SpecPin, SpecCal,   *)
(* SpecChat, SpecRes, SpecStore, SpecPersist, SpecSess) over the shared     *)
(* variables.                                                              *)
(***************************************************************************)
EXTENDS Integers, Sequences, FiniteSets, TLC

VARIABLES
    \* ---- browser / clock
    now,              \* Date.now(), in milliseconds
    page,             \* "closed" (no document loaded / navigated away) or "loaded"
    \* ---- GoogleAuthService
    authImpl,         \* which GoogleAuthService of the repository is built in
    auth,             \* the fields of the GoogleAuthService instance
    localStorage,     \* window.localStorage, the four google_* keys
    googleAuthState,  \* App's googleAuthState (set by the registered callback)
    pending,          \* promises / callbacks of the auth client still in flight
    authLog,          \* history variables of the auth client
    \* ---- MainOrchestrator / PinInputView
    orch,             \* MainOrchestrator state
    pinView,          \* the mounted PinInputView's state
    timers,           \* pending setTimeout callbacks of PinInputView.handleSubmit
    pinLog,           \* history variables of the PIN gate
    \* ---- App calendar handlers / GoogleCalendarService
    calImpl,          \* which GoogleCalendarService of the repository is built in
    cal,              \* App's calendarEvents and sign-in state, the token, the provider's events
    calOp,            \* handlers suspended at an await, each with its closure
    calLog,           \* the calendar handler that completed in the last step
    \* ---- GeminiService
    gem,              \* the fields of the GeminiService instance
    settings,         \* App's settings state
    chatLog,          \* history variables of GeminiService.sendMessage
    \* ---- GoogleCalendarService, event resources
    adapterCall,      \* the last createEvent / updateEvent call and the provider's item
    \* ---- storageService
    instanceStore,    \* window.localStorage, the assistant_instance_<id> keys
    storeLog,         \* the last storageService call and the data last saved per id
    \* ---- MainOrchestrator.saveInstanceDataCallback / App's saves
    persist,          \* currentInstanceData, the stored data, the saves issued so far
    \* ---- App.handleGoogleSignOut and the persisted calendar events
    sess              \* App's calendar list with the calendar events of the instance data

authVars == <<now, page, authImpl, auth, localStorage, googleAuthState, pending, authLog>>
pinVars  == <<orch, pinView, timers, pinLog>>
calVars  == <<calImpl, cal, calOp, calLog>>
chatVars == <<gem, settings, chatLog>>
resVars  == <<adapterCall>>
storeVars == <<instanceStore, storeLog, persist>>
sessVars == <<sess>>
vars     == <<authVars, pinVars, calVars, chatVars, resVars, storeVars, sessVars>>

\* JavaScript null / undefined for string-valued fields.
Null == "null"
\* An optional number: <<>> is null, <<n>> is the number n.
None == <<>>
Some(n) == <<n>>
IsSome(o) == Len(o) = 1
Val(o) == o[1]

(***************************************************************************)
(* Bounds of the model.                                                    *)
(***************************************************************************)
MaxLocalEvents == 2    \* local events added, per run
MaxHandlers == 4       \* handlers that save instance data, per run
MaxTicks == 4          \* the clock is observed at 1..MaxTicks seconds
MaxExpiresIn == 2      \* expires_in of a token response, in seconds
MaxPending == 2        \* profile fetches / revoke callbacks in flight at once

MsPerSecond == 1000

Tokens == {"tokA", "tokB"}
RefreshTokens == {"refA"}

Times == {k * MsPerSecond : k \in 1..(MaxTicks + MaxExpiresIn)}

\* Number.prototype.toString and parseInt(s, 10) on the integers the clock produces.
NumToString(n) == ToString(n)
ParseInt(s) == IF \E n \in Times : ToString(n) = s
               THEN Some(CHOOSE n \in Times : ToString(n) = s)
               ELSE None  \* NaN

(***************************************************************************)
(* GoogleAuthService                                                       *)
(***************************************************************************)
\* The GoogleAuthState objects the service produces.
AuthStateOf(isSignedIn, accessToken, user, error) ==
    [isSignedIn |-> isSignedIn, accessToken |-> accessToken, user |-> user, error |-> error]
SignedOut(error) == AuthStateOf(FALSE, Null, Null, error)

EmptyStorage == [google_access_token |-> Null, google_token_expiry |-> Null,
                 google_refresh_token |-> Null, google_code_verifier |-> Null]

NewAuth == [accessToken |-> Null, tokenExpiryTime |-> None, refreshToken |-> Null,
            onAuthStateChangedCallback |-> FALSE, tokenClient |-> FALSE]

NoPending == [profile |-> 0, exchange |-> FALSE, init |-> FALSE,
              tokenRequest |-> FALSE, revoke |-> 0]

NoOp == [op |-> "none"]

\* The auth "world" the service methods read and write.
World == [auth |-> auth, ls |-> localStorage, app |-> googleAuthState,
          pending |-> pending, log |-> authLog]

Commit(w) ==
    /\ auth' = w.auth
    /\ localStorage' = w.ls
    /\ googleAuthState' = w.app
    /\ pending' = w.pending
    /\ authLog' = w.log

\* notifyAuthStateChange: the state reaches App (setGoogleAuthState) only if a
\* callback is registered; otherwise it is dropped.
notifyAuthStateChange(w, state) ==
    IF w.auth.onAuthStateChangedCallback
    THEN [w EXCEPT !.app = state, !.log.produced = state]
    ELSE [w EXCEPT !.log.produced = state, !.log.dropped = @ \cup {state}]

\* saveTokens (PKCE implementation); refreshToken may be Null (absent in the response).
saveTokens(w, accessToken, expiresIn, refreshToken, t) ==
    LET expiry == t + expiresIn * MsPerSecond
        w1 == [w EXCEPT !.auth.accessToken = accessToken,
                        !.auth.tokenExpiryTime = Some(expiry),
                        !.ls.google_access_token = accessToken,
                        !.ls.google_token_expiry = NumToString(expiry)]
    IN  IF refreshToken /= Null
        THEN [w1 EXCEPT !.auth.refreshToken = refreshToken,
                        !.ls.google_refresh_token = refreshToken]
        ELSE w1

\* A plausible slip: the refresh token survives clearTokens.
clearTokensKeepRefresh(w) ==
    [w EXCEPT !.auth.accessToken = Null,
              !.auth.tokenExpiryTime = None,
              !.ls.google_access_token = Null,
              !.ls.google_token_expiry = Null,
              !.ls.google_code_verifier = Null]

\* clearTokens (PKCE implementation)
clearTokens(w) ==
    [w EXCEPT !.auth.accessToken = Null,
              !.auth.tokenExpiryTime = None,
              !.auth.refreshToken = Null,
              !.ls.google_access_token = Null,
              !.ls.google_token_expiry = Null,
              !.ls.google_refresh_token = Null,
              !.ls.google_code_verifier = Null]

\* clearStoredToken (gapi/GSI implementation): storage only.
clearStoredToken(w) ==
    [w EXCEPT !.ls.google_access_token = Null,
              !.ls.google_token_expiry = Null]

\* fetchUserProfileAndNotify up to its first await: without a token it notifies
\* at once, otherwise a profile request is in flight.
fetchUserProfileAndNotify(w) ==
    IF w.auth.accessToken = Null
    THEN notifyAuthStateChange(w, SignedOut("No access token to fetch profile."))
    ELSE [w EXCEPT !.pending.profile = @ + 1]

\* A plausible slip: a token that expires at this very millisecond is restored.
tryRestoreSessionInclusive(w, t) ==
    LET token == w.ls.google_access_token
        expiry == w.ls.google_token_expiry
        refresh == w.ls.google_refresh_token
    IN  IF /\ token /= Null
           /\ expiry /= Null
           /\ IsSome(ParseInt(expiry))
           /\ Val(ParseInt(expiry)) >= t
        THEN fetchUserProfileAndNotify(
                 [w EXCEPT !.auth.accessToken = token,
                           !.auth.tokenExpiryTime = ParseInt(expiry),
                           !.auth.refreshToken = refresh])
        ELSE notifyAuthStateChange(clearTokens(w), SignedOut(Null))

\* tryRestoreSession (PKCE implementation)
tryRestoreSession(w, t) ==
    LET token == w.ls.google_access_token
        expiry == w.ls.google_token_expiry
        refresh == w.ls.google_refresh_token
    IN  IF /\ token /= Null
           /\ expiry /= Null
           /\ IsSome(ParseInt(expiry))
           /\ Val(ParseInt(expiry)) > t
        THEN fetchUserProfileAndNotify(
                 [w EXCEPT !.auth.accessToken = token,
                           !.auth.tokenExpiryTime = ParseInt(expiry),
                           !.auth.refreshToken = refresh])
        ELSE notifyAuthStateChange(clearTokens(w), SignedOut(Null))

\* A plausible slip: the code is exchanged whether or not a verifier is stored.
handleRedirectWithoutVerifier(w, redirect) ==
    IF redirect THEN [w EXCEPT !.pending.exchange = TRUE] ELSE w

\* handleRedirect (PKCE implementation) up to its first await. redirect is TRUE
\* when the URL carries code and state=google_oauth_pkce.
handleRedirect(w, redirect) ==
    IF redirect
    THEN IF w.ls.google_code_verifier = Null
         THEN notifyAuthStateChange(w, SignedOut("Missing PKCE code verifier."))
         ELSE [w EXCEPT !.pending.exchange = TRUE]
    ELSE w

\* A plausible slip: the expiry comparison admits the instant of expiry.
tokenIsLiveInclusive(a, t) ==
    /\ a.accessToken /= Null
    /\ IsSome(a.tokenExpiryTime)
    /\ Val(a.tokenExpiryTime) /= 0
    /\ Val(a.tokenExpiryTime) >= t

\* The guard of getAccessToken:
\*   this.accessToken && this.tokenExpiryTime && this.tokenExpiryTime > Date.now()
tokenIsLive(a, t) ==
    /\ a.accessToken /= Null
    /\ IsSome(a.tokenExpiryTime)
    /\ Val(a.tokenExpiryTime) /= 0
    /\ Val(a.tokenExpiryTime) > t

\* getAccessToken's return value.
getAccessTokenResult(a, t) == IF tokenIsLive(a, t) THEN a.accessToken ELSE Null

\* A plausible slip: the expired token is reported but not cleared.
getAccessTokenPkceNoClear(w, t) ==
    IF tokenIsLive(w.auth, t)
    THEN w
    ELSE notifyAuthStateChange(w, SignedOut("Session expired."))

\* getAccessToken's effect, PKCE implementation: clears and notifies whenever it
\* does not return a token.
getAccessTokenPkce(w, t) ==
    IF tokenIsLive(w.auth, t)
    THEN w
    ELSE notifyAuthStateChange(clearTokens(w), SignedOut("Session expired."))

\* getAccessToken's effect, gapi/GSI implementation: clears and notifies only if
\* a token was held.
getAccessTokenGsi(w, t) ==
    IF tokenIsLive(w.auth, t)
    THEN w
    ELSE IF w.auth.accessToken /= Null
         THEN notifyAuthStateChange(
                  clearStoredToken([w EXCEPT !.auth.accessToken = Null,
                                             !.auth.tokenExpiryTime = None]),
                  SignedOut("Session expired."))
         ELSE w

getAccessTokenEffect(impl, w, t) ==
    IF impl = "pkce" THEN getAccessTokenPkce(w, t) ELSE getAccessTokenGsi(w, t)


\* attemptAutoSignInFromStorage (gapi/GSI implementation)
attemptAutoSignInFromStorage(w, t) ==
    LET storedToken == w.ls.google_access_token
        storedExpiry == w.ls.google_token_expiry
        both == storedToken /= Null /\ storedExpiry /= Null
        expiryTime == ParseInt(storedExpiry)
        live == both /\ IsSome(expiryTime) /\ Val(expiryTime) > t
        w1 == IF both /\ ~live THEN clearStoredToken(w) ELSE w
    IN  IF live
        THEN fetchUserProfileAndNotify(
                 [w EXCEPT !.auth.accessToken = storedToken,
                           !.auth.tokenExpiryTime = expiryTime])
        ELSE IF w1.auth.accessToken = Null
             THEN notifyAuthStateChange(w1, SignedOut(Null))
             ELSE w1

\* handleTokenResponse (gapi/GSI implementation); tok = Null is an error response.
handleTokenResponse(w, tok, expiresIn, t) ==
    IF tok = Null
    THEN notifyAuthStateChange(
             clearStoredToken([w EXCEPT !.auth.accessToken = Null,
                                        !.auth.tokenExpiryTime = None]),
             SignedOut("token error"))
    ELSE LET expiry == t + expiresIn * MsPerSecond
         IN  fetchUserProfileAndNotify(
                 [w EXCEPT !.auth.accessToken = tok,
                           !.auth.tokenExpiryTime = Some(expiry),
                           !.ls.google_access_token = tok,
                           !.ls.google_token_expiry = NumToString(expiry)])

\* The constructor followed by App's onAuthStateChanged(setGoogleAuthState)
\* (effect 5 of App runs both in one synchronous block).
constructAndRegister(impl, w, redirect, t) ==
    LET fresh == [w EXCEPT !.auth = NewAuth, !.pending = NoPending,
                           !.app = SignedOut(Null), !.log.dropped = {}]
        built == IF impl = "pkce"
                 THEN handleRedirect(tryRestoreSession(fresh, t), redirect)
                 ELSE [fresh EXCEPT !.pending.init = TRUE]
    IN  [built EXCEPT !.auth.onAuthStateChangedCallback = TRUE]

(***************************************************************************)
(* Actions of the auth client                                              *)
(***************************************************************************)
OtherThanAuth == UNCHANGED <<pinVars, calVars, chatVars, resVars, storeVars, sessVars>>

Logged(w, entry) == [w EXCEPT !.log.lastOp = entry]

\* The clock advances.
Tick ==
    /\ now < MaxTicks * MsPerSecond
    /\ now' = now + MsPerSecond
    /\ UNCHANGED <<page, authImpl, auth, localStorage, googleAuthState, pending, authLog>>
    /\ OtherThanAuth

\* The document is (re)loaded: App mounts, effect 5 builds the auth service.
PageLoad ==
    \E redirect \in BOOLEAN :
        /\ redirect => authImpl = "pkce"
        /\ page' = "loaded"
        /\ Commit(Logged(constructAndRegister(authImpl, World, redirect, now),
                         [op |-> "construct", redirect |-> redirect,
                          stored |-> localStorage, at |-> now]))
        /\ UNCHANGED <<now, authImpl>>
        /\ OtherThanAuth

\* signIn, PKCE: stores the code verifier and navigates to the consent page.
SignInPkce ==
    /\ page = "loaded" /\ authImpl = "pkce"
    /\ page' = "closed"
    /\ Commit(Logged([World EXCEPT !.ls.google_code_verifier = "verifier",
                                   !.pending = NoPending],
                     [op |-> "signIn"]))
    /\ UNCHANGED <<now, authImpl>>
    /\ OtherThanAuth

\* exchangeCodeForToken after the token endpoint answered (tok: the access
\* token of the answer, Null when it has none) or the request failed.
ExchangeResolve ==
    /\ page = "loaded" /\ authImpl = "pkce" /\ pending.exchange
    /\ \E tok \in Tokens \cup {Null}, expiresIn \in 1..MaxExpiresIn,
          refresh \in RefreshTokens \cup {Null}, failed \in BOOLEAN :
          LET w0 == [World EXCEPT !.pending.exchange = FALSE]
              w1 == IF failed
                    THEN notifyAuthStateChange(clearTokens(w0),
                                               SignedOut("Token exchange failed."))
                    ELSE IF tok /= Null
                    THEN fetchUserProfileAndNotify(
                             [saveTokens(w0, tok, expiresIn, refresh, now)
                                 EXCEPT !.log.invalidated = FALSE])
                    ELSE notifyAuthStateChange(clearTokens(w0),
                                               SignedOut("Failed to get access token."))
          IN  /\ failed => (tok = Null /\ refresh = Null /\ expiresIn = 1)  \* no answer is read
              /\ tok = Null => (refresh = Null /\ expiresIn = 1)
              /\ Commit(Logged(w1, [op |-> "exchange", ok |-> tok /= Null,
                                    failed |-> failed, token |-> tok,
                                    expiresIn |-> expiresIn, refresh |-> refresh,
                                    heldRefresh |-> auth.refreshToken, at |-> now]))
    /\ UNCHANGED <<now, page, authImpl>>
    /\ OtherThanAuth

\* fetchUserProfileAndNotify after its request settled: it reports signed-in with
\* whatever this.accessToken holds at that moment.
ProfileResolve ==
    /\ page = "loaded" /\ pending.profile > 0
    /\ \E ok \in BOOLEAN :
          LET w0 == [World EXCEPT !.pending.profile = @ - 1]
              st == AuthStateOf(TRUE, w0.auth.accessToken,
                                IF ok THEN "user" ELSE Null,
                                IF ok THEN Null ELSE "Failed to fetch user profile.")
          IN  Commit(Logged(notifyAuthStateChange(w0, st), [op |-> "profile"]))
    /\ UNCHANGED <<now, page, authImpl>>
    /\ OtherThanAuth

\* signOut
SignOut ==
    /\ page = "loaded"
    /\ LET w1 == IF authImpl = "pkce"
                 THEN notifyAuthStateChange(clearTokens(World), SignedOut(Null))
                 ELSE LET tokenToRevoke == auth.accessToken
                          w0 == clearStoredToken([World EXCEPT !.auth.accessToken = Null,
                                                               !.auth.tokenExpiryTime = None])
                      IN  IF tokenToRevoke /= Null
                          THEN [w0 EXCEPT !.pending.revoke = @ + 1]
                          ELSE notifyAuthStateChange(w0, SignedOut(Null))
       IN  /\ w1.pending.revoke <= MaxPending
           /\ Commit(Logged(w1, [op |-> "signOut"]))
    /\ UNCHANGED <<now, page, authImpl>>
    /\ OtherThanAuth

\* The callback of google.accounts.oauth2.revoke (gapi/GSI signOut).
RevokeDone ==
    /\ page = "loaded" /\ authImpl = "gsi" /\ pending.revoke > 0
    /\ Commit(Logged(notifyAuthStateChange([World EXCEPT !.pending.revoke = @ - 1],
                                           SignedOut(Null)),
                     [op |-> "revoked"]))
    /\ UNCHANGED <<now, page, authImpl>>
    /\ OtherThanAuth

\* getAccessToken, called by the calendar adapter.
GetAccessToken ==
    /\ page = "loaded"
    /\ LET expired == auth.accessToken /= Null /\ ~tokenIsLive(auth, now)
           entry == [op |-> "getAccessToken",
                     result |-> getAccessTokenResult(auth, now),
                     heldToken |-> auth.accessToken,
                     heldExpiry |-> auth.tokenExpiryTime,
                     heldRefresh |-> auth.refreshToken,
                     at |-> now,
                     expired |-> expired,
                     stateBefore |-> googleAuthState,
                     stored |-> localStorage]
           w1 == getAccessTokenEffect(authImpl, World, now)
       IN  Commit(Logged([w1 EXCEPT !.log.invalidated = @ \/ expired], entry))
    /\ UNCHANGED <<now, page, authImpl>>
    /\ OtherThanAuth

\* initializeClient (gapi/GSI) after gapi and GSI loaded, or failed to load.
InitResolve ==
    /\ page = "loaded" /\ authImpl = "gsi" /\ pending.init
    /\ \E ok \in BOOLEAN :
          LET w0 == [World EXCEPT !.pending.init = FALSE]
              w1 == IF ok
                    THEN attemptAutoSignInFromStorage(
                             [w0 EXCEPT !.auth.tokenClient = TRUE], now)
                    ELSE notifyAuthStateChange(w0, SignedOut("Initialization failed"))
          IN  Commit(Logged(w1, [op |-> "init", ok |-> ok,
                                 stored |-> localStorage, at |-> now]))
    /\ UNCHANGED <<now, page, authImpl>>
    /\ OtherThanAuth

\* signIn, gapi/GSI: asks the token client for a token.
SignInGsi ==
    /\ page = "loaded" /\ authImpl = "gsi" /\ ~pending.init
    /\ LET w1 == IF auth.tokenClient
                 THEN [World EXCEPT !.pending.tokenRequest = TRUE]
                 ELSE notifyAuthStateChange(World, SignedOut("Google auth client not ready."))
       IN  Commit(Logged(w1, [op |-> "signIn"]))
    /\ UNCHANGED <<now, page, authImpl>>
    /\ OtherThanAuth

\* The token client's callback (handleTokenResponse) or its error_callback.
TokenResponse ==
    /\ page = "loaded" /\ authImpl = "gsi" /\ pending.tokenRequest
    /\ \E kind \in {"token", "error", "error_callback"},
          tok \in Tokens, expiresIn \in 1..MaxExpiresIn :
          LET w0 == [World EXCEPT !.pending.tokenRequest = FALSE]
              w1 == CASE kind = "token" ->
                            [handleTokenResponse(w0, tok, expiresIn, now)
                                EXCEPT !.log.invalidated = FALSE]
                      [] kind = "error" -> handleTokenResponse(w0, Null, expiresIn, now)
                      [] OTHER -> notifyAuthStateChange(clearStoredToken(w0),
                                                        SignedOut("Sign-in failed"))
          IN  /\ w1.pending.profile <= MaxPending
              /\ Commit(Logged(w1, [op |-> "tokenResponse", kind |-> kind]))
    /\ UNCHANGED <<now, page, authImpl>>
    /\ OtherThanAuth

\* localStorage outlives the document: at the first load it is empty or holds the
\* access token and expiry a previous session of the application stored there.
InitialStorages ==
    {EmptyStorage} \cup
    {[EmptyStorage EXCEPT !.google_access_token = "tokA",
                          !.google_token_expiry = NumToString(e)] : e \in Times}

InitAuth ==
    /\ now = MsPerSecond
    /\ page = "closed"
    /\ authImpl \in {"pkce", "gsi"}
    /\ auth = NewAuth
    /\ localStorage \in InitialStorages
    /\ googleAuthState = SignedOut(Null)
    /\ pending = NoPending
    /\ authLog = [dropped |-> {}, produced |-> SignedOut(Null),
                  lastOp |-> NoOp, invalidated |-> FALSE]

NextAuth ==
    \/ Tick
    \/ PageLoad
    \/ SignInPkce
    \/ ExchangeResolve
    \/ ProfileResolve
    \/ SignOut
    \/ RevokeDone
    \/ GetAccessToken
    \/ InitResolve
    \/ SignInGsi
    \/ TokenResponse

(***************************************************************************)
(* MainOrchestrator and PinInputView: the PIN gate                         *)
(***************************************************************************)
MaxTimers == 2         \* handleSubmit timers pending at once

Instances == {"X", "Y"}
\* memoryStore.pin of each stored instance
StoredPin(i) == IF i = "X" THEN "1111" ELSE "2222"
Pins == {StoredPin(i) : i \in Instances}

UnmountedPinView == [mounted |-> FALSE, pin |-> Null, isLoading |-> FALSE, error |-> FALSE]
FreshPinView == [UnmountedPinView EXCEPT !.mounted = TRUE]

\* What MainOrchestrator's render returns for a state.
Rendered(o) ==
    IF o.isLoading /\ o.currentScreen = "landing" THEN "loading"
    ELSE IF ~o.isLoading /\ o.dataLoadError /\ o.currentScreen = "landing" THEN "error"
    ELSE IF o.currentScreen = "landing" THEN "landing"
    ELSE IF /\ o.currentScreen = "pinInput" /\ o.selectedInstanceId /= Null
            /\ o.currentInstanceData /= Null /\ o.expectedPin /= Null THEN "pinInput"
    ELSE IF /\ o.currentScreen = "app" /\ o.selectedInstanceId /= Null
            /\ o.currentInstanceData /= Null THEN "app"
    ELSE "landing"

\* handlePinSuccess, with the selectedInstanceId and currentInstanceData its
\* useCallback closure captured.
handlePinSuccess(o, selectedInstanceId, currentInstanceData) ==
    IF selectedInstanceId /= Null /\ currentInstanceData /= Null
    THEN [o EXCEPT !.currentScreen = "app"]
    ELSE [o EXCEPT !.currentScreen = "landing", !.dataLoadError = TRUE]

\* React mounts / unmounts PinInputView as the rendered screen changes; the
\* timers of an unmounted view stay scheduled but are detached from any view.
SetOrch(o, pv, ts) ==
    /\ orch' = o
    /\ IF Rendered(o) = "pinInput"
       THEN /\ pinView' = IF Rendered(orch) = "pinInput" THEN pv ELSE FreshPinView
            /\ timers' = ts
       ELSE /\ pinView' = UnmountedPinView
            /\ timers' = {[t EXCEPT !.attached = FALSE] : t \in ts}

OtherThanPin == UNCHANGED <<authVars, calVars, chatVars, resVars, storeVars, sessVars>>

\* loadInitialData / handleBackToLanding after their await: setIsLoading(false).
LoadFinish ==
    /\ orch.loadsPending > 0
    /\ SetOrch([orch EXCEPT !.loadsPending = @ - 1, !.isLoading = FALSE], pinView, timers)
    /\ UNCHANGED pinLog
    /\ OtherThanPin

\* The Retry button of the data-error screen: loadInitialData.
Retry ==
    /\ Rendered(orch) = "error"
    /\ orch.loadsPending < MaxPending
    /\ SetOrch([orch EXCEPT !.isLoading = TRUE, !.dataLoadError = FALSE,
                            !.loadsPending = @ + 1], pinView, timers)
    /\ UNCHANGED pinLog
    /\ OtherThanPin

\* handleSelectInstance up to its awaits (a click in LandingView).
SelectStart ==
    /\ Rendered(orch) = "landing"
    /\ \E id \in Instances :
          SetOrch([orch EXCEPT !.isLoading = TRUE, !.dataLoadError = FALSE,
                               !.selecting = @ \cup {id}], pinView, timers)
    /\ UNCHANGED pinLog
    /\ OtherThanPin

\* handleSelectInstance after getInstanceData returned (found: the instance and
\* its PIN were found).
SelectFinish ==
    /\ \E id \in orch.selecting, found \in BOOLEAN :
          LET o0 == [orch EXCEPT !.selecting = @ \ {id}, !.isLoading = FALSE]
              o1 == IF found
                    THEN [o0 EXCEPT !.selectedInstanceId = id,
                                    !.currentInstanceData = id,
                                    !.expectedPin = StoredPin(id),
                                    !.currentScreen = "pinInput"]
                    ELSE [o0 EXCEPT !.dataLoadError = TRUE, !.currentScreen = "landing"]
          IN  SetOrch(o1, pinView, timers)
    /\ UNCHANGED pinLog
    /\ OtherThanPin

\* handleBackToLanding up to its await ('Back to Assistant Selection' on the PIN
\* screen, 'switch instance' in App).
BackToLanding ==
    /\ Rendered(orch) \in {"pinInput", "app"}
    /\ orch.loadsPending < MaxPending
    /\ SetOrch([orch EXCEPT !.selectedInstanceId = Null, !.currentInstanceData = Null,
                            !.expectedPin = Null, !.currentScreen = "landing",
                            !.isLoading = TRUE, !.dataLoadError = FALSE,
                            !.loadsPending = @ + 1], pinView, timers)
    /\ UNCHANGED pinLog
    /\ OtherThanPin

\* PinInputView.handleChange: the four digits are filled in.
TypePin ==
    /\ Rendered(orch) = "pinInput" /\ ~pinView.isLoading
    /\ \E p \in Pins : pinView' = [pinView EXCEPT !.pin = p, !.error = FALSE]
    /\ UNCHANGED <<orch, timers, pinLog>>
    /\ OtherThanPin

\* PinInputView.handleSubmit: starts the 300 ms timer; the callback closes over
\* the entered PIN, the expectedPin prop and the onPinSuccess prop of this render.
Submit ==
    /\ Rendered(orch) = "pinInput" /\ ~pinView.isLoading /\ pinView.pin /= Null
    /\ Cardinality(timers) < MaxTimers
    /\ pinView' = [pinView EXCEPT !.isLoading = TRUE, !.error = FALSE]
    /\ timers' = timers \cup {[enteredPin |-> pinView.pin,
                               expectedPin |-> orch.expectedPin,
                               selectedInstanceId |-> orch.selectedInstanceId,
                               currentInstanceData |-> orch.currentInstanceData,
                               attached |-> TRUE]}
    /\ pinLog' = IF pinView.pin = StoredPin(orch.selectedInstanceId)
                 THEN [pinLog EXCEPT !.pinSubmittedFor = @ \cup {orch.selectedInstanceId}]
                 ELSE pinLog
    /\ UNCHANGED orch
    /\ OtherThanPin

\* The setTimeout callback of handleSubmit runs (it is never cancelled).
TimerFire ==
    /\ \E t \in timers :
          LET o1 == IF t.enteredPin = t.expectedPin
                    THEN handlePinSuccess(orch, t.selectedInstanceId, t.currentInstanceData)
                    ELSE orch
              pv == IF t.attached
                    THEN IF t.enteredPin = t.expectedPin
                         THEN [pinView EXCEPT !.isLoading = FALSE]
                         ELSE [pinView EXCEPT !.isLoading = FALSE, !.error = TRUE,
                                              !.pin = Null]
                    ELSE pinView
          IN  SetOrch(o1, pv, timers \ {t})
    /\ UNCHANGED pinLog
    /\ OtherThanPin

InitPin ==
    /\ orch = [currentScreen |-> "landing", selectedInstanceId |-> Null,
               currentInstanceData |-> Null, expectedPin |-> Null,
               isLoading |-> TRUE, dataLoadError |-> FALSE,
               selecting |-> {}, loadsPending |-> 1]
    /\ pinView = UnmountedPinView
    /\ timers = {}
    /\ pinLog = [pinSubmittedFor |-> {}]

NextPin ==
    \/ LoadFinish
    \/ Retry
    \/ SelectStart
    \/ SelectFinish
    \/ BackToLanding
    \/ TypePin
    \/ Submit
    \/ TimerFire

\* C3 (as claimed): whenever the App view is rendered for an instance, a PIN equal
\* to that instance's stored PIN was submitted on the PIN screen while that
\* instance was selected.
C3_AppOnlyAfterPin ==
    Rendered(orch) = "app" => orch.selectedInstanceId \in pinLog.pinSubmittedFor

(***************************************************************************)
(* GoogleCalendarService (gapi and REST) and App's calendar handlers       *)
(***************************************************************************)
MaxEvents == 2         \* events created during a run (local ids and provider ids)
MaxInFlight == 1       \* calendar handlers awaiting the adapter at once

Titles == {"Tea", "tea"}          \* titles of events
QueryTitles == {"tea", "Gym"}     \* titles asked for
Dates == {"2025-01-01", "2025-01-02"}

\* String.prototype.toLowerCase on the titles
toLowerCase(t) == IF t = "Tea" THEN "tea" ELSE IF t = "Gym" THEN "gym" ELSE t

\* new Date("YYYY-MM-DD").getTime(), up to an order-preserving scale
DateValue(d) == IF d = "2025-01-01" THEN 1 ELSE 2

LocalEvent(id, data) ==
    [id |-> id, title |-> data.title, date |-> data.date, time |-> data.time,
     isGoogleEvent |-> FALSE, googleEventId |-> Null]

\* JavaScript truthiness of an optional string: undefined and '' are falsy.
Truthy(s) == s /= Null /\ s /= ""

\* ---- the provider's event resource.  start and end each carry a date (all-day)
\* or a dateTime.  A dateTime `${date}T${time}:00` is <<date, time, h>>: h hours
\* after date and time; <<>> is an absent dateTime.
NoDateTime == <<>>
AllDay(date) == [date |-> date, dateTime |-> NoDateTime]
Timed(date, time, h) == [date |-> Null, dateTime |-> <<date, time, h>>]
NoStart == AllDay(Null)

\* dateTime.split('T')[0] and dateTime.split('T')[1].substring(0,5)
DatePart(dateTime) == dateTime[1]
TimePart(dateTime) == dateTime[2]

\* The provider item for a resource it accepted: the resource and the id.
ProviderItem(id, resource) ==
    [id |-> id, summary |-> resource.summary, start |-> resource.start, end |-> resource.end]

\* The CalendarEvent the adapter builds from a provider item (listEvents,
\* createEvent, updateEvent share the mapping).
FromProvider(item) ==
    [id |-> item.id,
     title |-> IF Truthy(item.summary) THEN item.summary ELSE "No Title",
     date |-> IF Truthy(item.start.date) THEN item.start.date
              ELSE IF item.start.dateTime /= NoDateTime THEN DatePart(item.start.dateTime)
              ELSE Null,
     time |-> IF item.start.dateTime /= NoDateTime THEN TimePart(item.start.dateTime)
              ELSE Null,
     isGoogleEvent |-> TRUE, googleEventId |-> item.id]

\* googleEvent of createEvent: a timed event of one hour when eventData has a
\* time, an all-day event otherwise.
googleEvent(eventData) ==
    IF Truthy(eventData.time)
    THEN [summary |-> eventData.title,
          start |-> Timed(eventData.date, eventData.time, 0),
          end |-> Timed(eventData.date, eventData.time, 1)]
    ELSE [summary |-> eventData.title,
          start |-> AllDay(eventData.date),
          end |-> AllDay(eventData.date)]

\* The comparator key of the sort in the add / update handlers:
\*   new Date(a.date + (a.time || '')).getTime()
\* A date with a time appended is no ISO date string; its parse is left to the
\* engine (None stands for that).
SortKey(e) == IF e.time = Null THEN Some(DateValue(e.date)) ELSE None

IndexPermutations(n) == {p \in [1..n -> 1..n] : \A i, j \in 1..n : p[i] = p[j] => i = j}

\* Array.prototype.sort with that comparator: the stable ascending order when
\* every key is a number; with a key the engine does not define, any order.
SortOutcomes(list) ==
    LET n == Len(list)
        defined == \A i \in 1..n : IsSome(SortKey(list[i]))
        stable(p) == \A i, j \in 1..n : i < j =>
                        \/ Val(SortKey(list[p[i]])) < Val(SortKey(list[p[j]]))
                        \/ /\ Val(SortKey(list[p[i]])) = Val(SortKey(list[p[j]]))
                           /\ p[i] < p[j]
    IN  {[i \in 1..n |-> list[p[i]]] :
            p \in {q \in IndexPermutations(n) : defined => stable(q)}}

\* A plausible slip: titles compared without toLowerCase.
MatchesQueryCaseSensitive(event, query, google) ==
    /\ event.isGoogleEvent = google
    /\ event.title = query.title
    /\ (query.date = Null \/ event.date = query.date)

\* The predicate of the find / findIndex calls in removeCalendarEventByQuery and
\* updateCalendarEventByQuery.
MatchesQuery(event, query, google) ==
    /\ event.isGoogleEvent = google
    /\ toLowerCase(event.title) = toLowerCase(query.title)
    /\ (query.date = Null \/ event.date = query.date)

\* Array.prototype.findIndex, scanning from index i (0: not found).
RECURSIVE FindFrom(_, _, _, _)
FindFrom(list, query, google, i) ==
    IF i > Len(list) THEN 0
    ELSE IF MatchesQuery(list[i], query, google) THEN i
    ELSE FindFrom(list, query, google, i + 1)
FindIndex(list, query, google) == FindFrom(list, query, google, 1)

\* prev.filter(e => e.id !== id)
FilterOutId(list, id) == SelectSeq(list, LAMBDA e : e.id /= id)

\* prev.map(e => e.id === ev.id ? ev : e)
ReplaceById(list, ev) == [i \in 1..Len(list) |-> IF list[i].id = ev.id THEN ev ELSE list[i]]

\* { ...originalEvent, ...updates, id: originalEvent.id }
ApplyUpdates(event, updates) ==
    [event EXCEPT !.title = IF updates.title /= Null THEN updates.title ELSE @,
                  !.date = IF updates.date /= Null THEN updates.date ELSE @,
                  !.time = IF updates.time /= Null THEN updates.time ELSE @]

\* ---- the adapter.  A call ends in one of: a list of events, one event, null,
\* true, false, or a thrown error.
NoEvent == [id |-> Null, title |-> Null, date |-> Null, time |-> Null,
            isGoogleEvent |-> FALSE, googleEventId |-> Null]
NoItem == [id |-> Null, summary |-> Null, start |-> NoStart, end |-> NoStart]
ReturnsEvents(list) == [kind |-> "events", events |-> list, event |-> NoEvent]
ReturnsEvent(e) == [kind |-> "event", events |-> <<>>, event |-> e]
Returns(k) == [kind |-> k, events |-> <<>>, event |-> NoEvent]
Throws == Returns("throw")
NetOutcomes == {"ok", "netfail", "httperr"}

\* listEvents.  ready: a token was available (and, for gapi, the API loaded);
\* net: how the request ended; items: the events the provider holds.
listEvents(impl, ready, net, items) ==
    LET mapped == [i \in 1..Len(items) |-> FromProvider(items[i])]
    IN  IF ~ready THEN ReturnsEvents(<<>>)
        ELSE IF impl = "gapi"
             THEN IF net = "ok" THEN ReturnsEvents(mapped) ELSE Throws
             ELSE IF net = "ok" THEN ReturnsEvents(mapped) ELSE ReturnsEvents(<<>>)

\* createEvent.  newItem: the provider's answer to the insert.
createEvent(impl, ready, net, newItem) ==
    IF ~ready THEN Returns("null")
    ELSE IF impl = "gapi"
         THEN IF net = "ok" THEN ReturnsEvent(FromProvider(newItem)) ELSE Throws
         ELSE IF net = "ok" THEN ReturnsEvent(FromProvider(newItem)) ELSE Returns("null")

\* deleteEvent
deleteEvent(impl, ready, net) ==
    IF ~ready THEN Returns("false")
    ELSE IF impl = "gapi"
         THEN IF net = "ok" THEN Returns("true") ELSE Throws
         ELSE IF net = "ok" THEN Returns("true") ELSE Returns("false")

\* The hours between the existing start and end, one hour when either is no
\* dateTime.
DurationOf(existing) ==
    IF existing.start.dateTime /= NoDateTime /\ existing.end.dateTime /= NoDateTime
    THEN existing.end.dateTime[3] - existing.start.dateTime[3]
    ELSE 1

\* A plausible slip: the representation that is replaced is not deleted.
resourceToUpdateKeepsOld(existing, updates) ==
    LET isDateTimeEvent == existing.start.dateTime /= NoDateTime
        newDate == IF Truthy(updates.date) THEN updates.date
                   ELSE IF isDateTimeEvent THEN DatePart(existing.start.dateTime)
                   ELSE existing.start.date
        newTime == IF updates.time /= Null THEN updates.time
                   ELSE IF isDateTimeEvent THEN TimePart(existing.start.dateTime)
                   ELSE Null
        base == [summary |-> IF updates.title /= Null THEN updates.title
                             ELSE existing.summary,
                 start |-> existing.start, end |-> existing.end]
    IN  IF ~(Truthy(updates.date) \/ Truthy(updates.time)) THEN base
        ELSE IF Truthy(newTime)
        THEN [base EXCEPT !.start.dateTime = <<newDate, newTime, 0>>,
                          !.end.dateTime = <<newDate, newTime, DurationOf(existing)>>]
        ELSE [base EXCEPT !.start.date = newDate, !.end.date = newDate]

\* The resource updateEvent builds from the existing provider item and the
\* updates: start and end are cloned, and when a date or a time is given the
\* new representation is written and the other one deleted.
resourceToUpdate(existing, updates) ==
    LET isDateTimeEvent == existing.start.dateTime /= NoDateTime
        newDate == IF Truthy(updates.date) THEN updates.date
                   ELSE IF isDateTimeEvent THEN DatePart(existing.start.dateTime)
                   ELSE existing.start.date
        newTime == IF updates.time /= Null THEN updates.time
                   ELSE IF isDateTimeEvent THEN TimePart(existing.start.dateTime)
                   ELSE Null
        base == [summary |-> IF updates.title /= Null THEN updates.title
                             ELSE existing.summary,
                 start |-> existing.start, end |-> existing.end]
    IN  IF ~(Truthy(updates.date) \/ Truthy(updates.time)) THEN base
        ELSE IF Truthy(newTime)
        THEN [base EXCEPT !.start.dateTime = <<newDate, newTime, 0>>,
                          !.end.dateTime = <<newDate, newTime, DurationOf(existing)>>,
                          !.start.date = Null, !.end.date = Null]
        ELSE [base EXCEPT !.start.date = newDate, !.end.date = newDate,
                          !.start.dateTime = NoDateTime, !.end.dateTime = NoDateTime]

\* updateEvent.  netGet / netPut: how its two requests ended; existing: the item
\* the GET returned.
updateEvent(impl, ready, netGet, netPut, existing, updates) ==
    IF ~ready THEN Returns("null")
    ELSE IF impl = "gapi"
         THEN IF netGet = "ok" /\ netPut = "ok"
              THEN ReturnsEvent(FromProvider(
                       ProviderItem(existing.id, resourceToUpdate(existing, updates))))
              ELSE Throws
         ELSE IF netGet = "netfail" THEN Returns("null")
              ELSE IF netGet = "httperr" THEN Throws  \* existingEvent.start is undefined
              ELSE IF netPut = "ok"
                   THEN ReturnsEvent(FromProvider(
                            ProviderItem(existing.id, resourceToUpdate(existing, updates))))
                   ELSE Returns("null")

\* ---- App state helpers
\* The provider item with a given id (NoItem when the provider holds none).
RemoteItem(remote, id) ==
    IF \E i \in 1..Len(remote) : remote[i].id = id
    THEN remote[CHOOSE i \in 1..Len(remote) : remote[i].id = id]
    ELSE NoItem

\* authService.getAccessToken() as the adapter calls it, and its effect on App's
\* googleAuthState.isSignedIn: the PKCE client reports 'Session expired.' whenever
\* it returns null, the gapi/GSI client only when it still held a token.
TokenOk(c) == c.token = "live"
AfterTokenCheck(c) ==
    IF TokenOk(c) THEN c
    ELSE IF authImpl = "pkce" \/ c.token = "expired"
         THEN [c EXCEPT !.isSignedIn = FALSE, !.token = "none"]
         ELSE c

NoQuery == [title |-> Null, date |-> Null]
NoUpdates == [title |-> Null, date |-> Null, time |-> Null]
Queries == [title : QueryTitles, date : Dates \cup {Null}]
Updates == {[NoUpdates EXCEPT !.title = "tea"], [NoUpdates EXCEPT !.date = "2025-01-02"]}
ValidEventData ==
    {[title |-> "Tea", date |-> "2025-01-01", time |-> Null],
     [title |-> "tea", date |-> "2025-01-01", time |-> Null],
     [title |-> "tea", date |-> "2025-01-02", time |-> "09:00"]}
EventData == ValidEventData \cup {[title |-> "Tea", date |-> Null, time |-> Null]}

\* A handler's continuation: what its closure captured and what it awaits.
\* stage "gemini": handleSendMessage awaiting the model's reply; stage "adapter":
\* a calendar handler awaiting the adapter.
Continuation(stage, handler, closure, ready, query, updates, target) ==
    [stage |-> stage, handler |-> handler,
     calendarEvents |-> closure.calendarEvents, isSignedIn |-> closure.isSignedIn,
     ready |-> ready, query |-> query, updates |-> updates, target |-> target]

\* The calendarEvents and googleAuthState.isSignedIn of the current render.
Closure == [calendarEvents |-> cal.calendarEvents, isSignedIn |-> cal.isSignedIn]

\* calLog describes the handler that completed in the last step (NoCalOp when
\* none did): the list it searched, the id it acted on, whether a request of
\* its adapter call failed at the network, how that call ended, what the
\* handler returned, and the list before its update.  The list searched is
\* recorded for the two by-query handlers only.
NoCalOp == [op |-> "none", signedIn |-> FALSE, read |-> <<>>, query |-> NoQuery,
            acted |-> Null, netFailed |-> FALSE, outcome |-> "none", result |-> FALSE,
            before |-> <<>>]
CalOpLog(op, signedIn, read, query, acted, netFailed, outcome, result) ==
    [op |-> op, signedIn |-> signedIn,
     read |-> IF op \in {"removeByQuery", "updateByQuery"} THEN read ELSE <<>>,
     query |-> query,
     acted |-> acted, netFailed |-> netFailed, outcome |-> outcome, result |-> result,
     before |-> cal.calendarEvents]

OtherThanCal == UNCHANGED <<authVars, pinVars, chatVars, resVars, storeVars, sessVars, calImpl>>

SetCal(c, ops, log) ==
    /\ cal' = c
    /\ calOp' = ops
    /\ calLog' = log
    /\ OtherThanCal

\* A handler reaches its await: the token check of the adapter call has run and
\* the continuation is pending.
Await(ops, k) ==
    /\ Cardinality(ops) < MaxInFlight
    /\ SetCal(AfterTokenCheck(cal), ops \cup {k}, NoCalOp)

LocalId(n) == "L" \o ToString(n)
ProviderId(n) == "G" \o ToString(n)

\* ---- the handlers up to their first await.  closure: the render they were
\* created in; ops: the continuations that stay pending.

\* addCalendarEventInternal
addCalendarEventInternal(closure, ops, data) ==
    IF data.title = Null \/ data.date = Null
    THEN SetCal(cal, ops,
                CalOpLog("add", closure.isSignedIn,
                     closure.calendarEvents, NoQuery, Null, FALSE, "none", FALSE))
    ELSE /\ cal.created < MaxEvents
         /\ IF closure.isSignedIn
            THEN LET item == [NoEvent EXCEPT !.id = ProviderId(cal.created + 1),
                                             !.title = data.title, !.date = data.date,
                                             !.time = data.time]
                 IN  /\ Cardinality(ops) < MaxInFlight
                     /\ SetCal([AfterTokenCheck(cal) EXCEPT !.created = @ + 1],
                               ops \cup {Continuation("adapter", "add", closure, TokenOk(cal),
                                                      NoQuery, NoUpdates, item)},
                               NoCalOp)
            ELSE LET ev == LocalEvent(LocalId(cal.created + 1), data)
                 IN  \E sorted \in SortOutcomes(Append(cal.calendarEvents, ev)) :
                        SetCal([cal EXCEPT !.calendarEvents = sorted, !.created = @ + 1],
                               ops,
                               CalOpLog("add", FALSE,
                                    closure.calendarEvents, NoQuery, ev.id, FALSE, "none", TRUE))

\* removeCalendarEventByQuery
removeCalendarEventByQuery(closure, ops, query) ==
    LET i == FindIndex(closure.calendarEvents, query, closure.isSignedIn)
        found == closure.calendarEvents[i]
    IN  IF i = 0
        THEN SetCal(cal, ops,
                    CalOpLog("removeByQuery", closure.isSignedIn,
                         closure.calendarEvents, query, Null, FALSE, "none", FALSE))
        ELSE IF closure.isSignedIn
        THEN Await(ops, Continuation("adapter", "removeByQuery", closure, TokenOk(cal),
                                     query, NoUpdates, found))
        ELSE SetCal([cal EXCEPT !.calendarEvents = FilterOutId(@, found.id)], ops,
                    CalOpLog("removeByQuery", FALSE,
                         closure.calendarEvents, query, found.id, FALSE, "none", TRUE))

\* updateCalendarEventByQuery
updateCalendarEventByQuery(closure, ops, query, updates) ==
    LET i == FindIndex(closure.calendarEvents, query, closure.isSignedIn)
        found == closure.calendarEvents[i]
    IN  IF i = 0
        THEN SetCal(cal, ops,
                    CalOpLog("updateByQuery", closure.isSignedIn,
                         closure.calendarEvents, query, Null, FALSE, "none", FALSE))
        ELSE IF closure.isSignedIn
        THEN Await(ops, Continuation("adapter", "updateByQuery", closure, TokenOk(cal),
                                     query, updates, found))
        ELSE \E sorted \in SortOutcomes(ReplaceById(cal.calendarEvents,
                                                    ApplyUpdates(found, updates))) :
                SetCal([cal EXCEPT !.calendarEvents = sorted], ops,
                       CalOpLog("updateByQuery", FALSE,
                            closure.calendarEvents, query, found.id, FALSE, "none", TRUE))

\* removeEventFromCalendarView
removeEventFromCalendarView(closure, ops, eventId) ==
    LET present == \E i \in 1..Len(closure.calendarEvents) :
                      closure.calendarEvents[i].id = eventId
        found == closure.calendarEvents[CHOOSE i \in 1..Len(closure.calendarEvents) :
                                           closure.calendarEvents[i].id = eventId]
    IN  IF ~present THEN SetCal(cal, ops, NoCalOp)
        ELSE IF found.isGoogleEvent /\ closure.isSignedIn
        THEN Await(ops, Continuation("adapter", "removeFromView", closure, TokenOk(cal),
                                     NoQuery, NoUpdates, found))
        ELSE IF ~found.isGoogleEvent
        THEN SetCal([cal EXCEPT !.calendarEvents = FilterOutId(closure.calendarEvents, eventId)],
                    ops,
                    CalOpLog("removeFromView", closure.isSignedIn,
                         closure.calendarEvents, NoQuery, eventId, FALSE, "none", TRUE))
        ELSE SetCal(cal, ops, NoCalOp)

\* ---- actions of the calendar

\* handleSendMessage up to its await of the model's reply: the handlers it will
\* call close over this render's calendarEvents and googleAuthState.
SendMessage ==
    /\ Cardinality(calOp) < MaxInFlight
    /\ SetCal(cal, calOp \cup {Continuation("gemini", "handleSendMessage", Closure, FALSE,
                                            NoQuery, NoUpdates, NoEvent)}, NoCalOp)

\* The reply carries no calendar action.
ReplyWithoutAction ==
    \E op \in calOp :
        /\ op.stage = "gemini"
        /\ SetCal(cal, calOp \ {op}, NoCalOp)

\* handleCalendarAction: add_event
ActionAdd ==
    \E op \in calOp, data \in EventData :
        /\ op.stage = "gemini"
        /\ addCalendarEventInternal(op, calOp \ {op}, data)

\* handleCalendarAction: delete_event
ActionDelete ==
    \E op \in calOp, query \in Queries :
        /\ op.stage = "gemini"
        /\ removeCalendarEventByQuery(op, calOp \ {op}, query)

\* handleCalendarAction: update_event
ActionUpdate ==
    \E op \in calOp, query \in Queries, updates \in Updates :
        /\ op.stage = "gemini"
        /\ updateCalendarEventByQuery(op, calOp \ {op}, query, updates)

\* addEventFromCalendarView (the calendar view's form)
ViewAdd ==
    \E data \in ValidEventData :
        addCalendarEventInternal(Closure, calOp, data)

\* The calendar view's delete button of a listed event.
ViewRemove ==
    \E i \in 1..Len(cal.calendarEvents) :
        removeEventFromCalendarView(Closure, calOp, cal.calendarEvents[i].id)

\* The effect that calls fetchGoogleCalendarEvents while signed in, up to its
\* await of listEvents.
FetchStart ==
    /\ cal.isSignedIn
    /\ Await(calOp, Continuation("adapter", "fetch", Closure, TokenOk(cal),
                                 NoQuery, NoUpdates, NoEvent))

\* ready, for a pending adapter call: the token was available and, in the gapi
\* adapter, the calendar API loaded.
Ready(op, apiReady) == op.ready /\ (calImpl = "rest" \/ apiReady)
ApiReadiness == IF calImpl = "gapi" THEN BOOLEAN ELSE {TRUE}


\* listEvents returns to fetchGoogleCalendarEvents.
ListEventsReturn ==
    \E op \in calOp, net \in NetOutcomes, apiReady \in ApiReadiness :
        /\ op.stage = "adapter" /\ op.handler = "fetch"
        /\ LET ready == Ready(op, apiReady)
               r == listEvents(calImpl, ready, net, cal.remote)
           IN  SetCal(IF r.kind = "events" THEN [cal EXCEPT !.calendarEvents = r.events]
                                           ELSE cal,
                      calOp \ {op},
                      CalOpLog("fetch", op.isSignedIn, op.calendarEvents, NoQuery, Null,
                               ready /\ net = "netfail", r.kind, r.kind /= "throw"))

\* createEvent returns to addCalendarEventInternal.
\* addCalendarEventInternal's signed-in branch as it would be with a local event
\* as the fallback of a failed createEvent.
newEventForStateWithFallback(r, eventData) ==
    IF r.kind = "event" THEN <<r.event>> ELSE <<LocalEvent(LocalId(0), eventData)>>

\* newEventForState in addCalendarEventInternal's signed-in branch, after
\* createEvent ended with r: the returned Google event, or null (<<>>) when
\* createEvent returned null or threw.
newEventForState(r, eventData) ==
    IF r.kind = "event" THEN <<r.event>> ELSE <<>>

CreateEventReturn ==
    \E op \in calOp, net \in NetOutcomes, apiReady \in ApiReadiness :
        /\ op.stage = "adapter" /\ op.handler = "add"
        /\ LET ready == Ready(op, apiReady)
               newItem == ProviderItem(op.target.id, googleEvent(op.target))
               r == createEvent(calImpl, ready, net, newItem)
               new == newEventForState(r, op.target)
               log == CalOpLog("add", TRUE, op.calendarEvents, NoQuery,
                               IF r.kind = "event" THEN r.event.id ELSE Null,
                               ready /\ net = "netfail", r.kind, r.kind = "event")
           IN  IF new /= <<>>
               THEN \E sorted \in SortOutcomes(Append(cal.calendarEvents, new[1])) :
                       SetCal([cal EXCEPT !.calendarEvents = sorted,
                                          !.remote = Append(@, newItem)],
                              calOp \ {op}, log)
               ELSE SetCal(cal, calOp \ {op}, log)

\* deleteEvent returns to removeCalendarEventByQuery or removeEventFromCalendarView.
DeleteEventReturn ==
    \E op \in calOp, net \in NetOutcomes, apiReady \in ApiReadiness :
        /\ op.stage = "adapter" /\ op.handler \in {"removeByQuery", "removeFromView"}
        /\ LET ready == Ready(op, apiReady)
               r == deleteEvent(calImpl, ready, net)
               remote == IF r.kind = "true"
                         THEN SelectSeq(cal.remote, LAMBDA it : it.id /= op.target.googleEventId)
                         ELSE cal.remote
               kept == IF op.handler = "removeByQuery"
                       THEN FilterOutId(cal.calendarEvents, op.target.id)
                       ELSE FilterOutId(op.calendarEvents, op.target.id)
               log == CalOpLog(op.handler, TRUE, op.calendarEvents, op.query, op.target.id,
                               ready /\ net = "netfail", r.kind, r.kind /= "throw")
           IN  IF r.kind = "throw"
               THEN SetCal(cal, calOp \ {op}, log)
               ELSE SetCal([cal EXCEPT !.calendarEvents = kept, !.remote = remote],
                           calOp \ {op}, log)

\* updateEvent returns to updateCalendarEventByQuery.
UpdateEventReturn ==
    \E op \in calOp, netGet \in NetOutcomes, netPut \in NetOutcomes, apiReady \in ApiReadiness :
        /\ op.stage = "adapter" /\ op.handler = "updateByQuery"
        /\ LET ready == Ready(op, apiReady)
               existing == RemoteItem(cal.remote, op.target.googleEventId)
               r == updateEvent(calImpl, ready, netGet, netPut, existing, op.updates)
               netFailed == ready /\ (netGet = "netfail" \/ (netGet = "ok" /\ netPut = "netfail"))
               log == CalOpLog("updateByQuery", TRUE, op.calendarEvents, op.query, op.target.id,
                               netFailed, r.kind, r.kind = "event")
           IN  \* the GET of an event the provider no longer holds ends in an HTTP error
               /\ existing = NoItem => netGet /= "ok"
               /\ netGet /= "ok" => netPut = "ok"      \* no PUT is sent then
               /\ IF r.kind = "event"
                  THEN \E sorted \in SortOutcomes(ReplaceById(cal.calendarEvents, r.event)) :
                          SetCal([cal EXCEPT
                                    !.calendarEvents = sorted,
                                    !.remote = [i \in 1..Len(@) |->
                                                  IF @[i].id = existing.id
                                                  THEN ProviderItem(existing.id,
                                                           resourceToUpdate(existing, op.updates))
                                                  ELSE @[i]]],
                                 calOp \ {op}, log)
                  ELSE SetCal(cal, calOp \ {op}, log)

\* The auth client reports a signed-in state to App.  The PKCE client signs in
\* through a redirect, which reloads the page and drops pending continuations.
CalSignIn ==
    /\ ~cal.isSignedIn /\ ~cal.revoking
    /\ SetCal([cal EXCEPT !.isSignedIn = TRUE, !.token = "live"],
              IF authImpl = "pkce" THEN {} ELSE calOp, NoCalOp)

\* The access token's expiry time passes.
TokenExpires ==
    /\ cal.token = "live"
    /\ SetCal([cal EXCEPT !.token = "expired"], calOp, NoCalOp)

\* handleGoogleSignOut: authService.signOut() and the removal of Google events.
\* The gapi/GSI client reports the signed-out state only when the revocation
\* of a held token has completed.
CalSignOut ==
    /\ cal.isSignedIn
    /\ LET c == [cal EXCEPT !.calendarEvents = SelectSeq(@, LAMBDA e : ~e.isGoogleEvent),
                            !.token = "none"]
           log == CalOpLog("signOut", TRUE, cal.calendarEvents,
                                                     NoQuery, Null, FALSE, "none", TRUE)
       IN  IF authImpl = "gsi" /\ cal.token /= "none"
           THEN SetCal([c EXCEPT !.revoking = TRUE], calOp, log)
           ELSE SetCal([c EXCEPT !.isSignedIn = FALSE], calOp, log)

\* The callback of google.accounts.oauth2.revoke
CalRevokeDone ==
    /\ cal.revoking
    /\ SetCal([cal EXCEPT !.revoking = FALSE, !.isSignedIn = FALSE], calOp, NoCalOp)

InitCal ==
    \* the gapi adapter goes with the gapi/GSI auth client, which hands the
    \* token to gapi.client; the REST adapter with the PKCE client
    /\ calImpl = IF authImpl = "gsi" THEN "gapi" ELSE "rest"
    /\ cal = [calendarEvents |-> <<>>, isSignedIn |-> FALSE, token |-> "none",
              revoking |-> FALSE, remote |-> <<>>, created |-> 0]
    /\ calOp = {}
    /\ calLog = NoCalOp

NextCal ==
    \/ SendMessage
    \/ ReplyWithoutAction
    \/ ActionAdd
    \/ ActionDelete
    \/ ActionUpdate
    \/ ViewAdd
    \/ ViewRemove
    \/ FetchStart
    \/ ListEventsReturn
    \/ CreateEventReturn
    \/ DeleteEventReturn
    \/ UpdateEventReturn
    \/ CalSignIn
    \/ TokenExpires
    \/ CalSignOut
    \/ CalRevokeDone

(***************************************************************************)
(* GoogleCalendarService: the event resources sent to the provider         *)
(***************************************************************************)
\* eventData.time / updates.time: absent, empty, or HH:MM
ResourceTimes == {Null, "", "09:00", "14:30"}
ResourceEventData == [title : {"Tea"}, date : Dates, time : ResourceTimes]
ResourceUpdates == [title : {Null, "tea"}, date : {Null, "2025-01-02"}, time : ResourceTimes]

\* Items the provider holds that were not created through the adapter: an
\* all-day event and a timed event of two hours.
ForeignItems ==
    {ProviderItem("F1", [summary |-> "Gym", start |-> AllDay("2025-01-01"),
                         end |-> AllDay("2025-01-02")]),
     ProviderItem("F2", [summary |-> "Gym", start |-> Timed("2025-01-01", "09:00", 0),
                         end |-> Timed("2025-01-01", "09:00", 2)])}

NoResource == [summary |-> Null, start |-> NoStart, end |-> NoStart]
NoAdapterCall == [op |-> "none", eventData |-> [title |-> Null, date |-> Null, time |-> Null],
                  updates |-> NoUpdates, existing |-> NoItem, sent |-> NoResource,
                  item |-> NoItem]

OtherThanRes == UNCHANGED <<authVars, pinVars, calVars, chatVars, storeVars, sessVars>>

\* createEvent with a token, the request answered: the resource sent and the
\* item the provider holds from then on.
CreateEventCall ==
    /\ \E eventData \in ResourceEventData :
          adapterCall' = [NoAdapterCall EXCEPT
                            !.op = "createEvent", !.eventData = eventData,
                            !.sent = googleEvent(eventData),
                            !.item = ProviderItem("G1", googleEvent(eventData))]
    /\ OtherThanRes

\* updateEvent with a token, both requests answered: the GET returns the
\* provider's item, the PUT sends resourceToUpdate.
UpdateEventCall ==
    /\ adapterCall.item /= NoItem
    /\ \E updates \in ResourceUpdates :
          LET existing == adapterCall.item
              sent == resourceToUpdate(existing, updates)
          IN  adapterCall' = [NoAdapterCall EXCEPT
                                !.op = "updateEvent", !.updates = updates,
                                !.existing = existing, !.sent = sent,
                                !.item = ProviderItem(existing.id, sent)]
    /\ OtherThanRes

InitRes == adapterCall \in {[NoAdapterCall EXCEPT !.item = it] : it \in ForeignItems \cup {NoItem}}

NextRes ==
    \/ CreateEventCall
    \/ UpdateEventCall

(***************************************************************************)
(* GeminiService: chat sessions and calendar actions in replies            *)
(***************************************************************************)
MaxAwaiting == 2       \* sendMessage calls awaiting the model's reply at once

TextPlain == "text/plain"
ApplicationJson == "application/json"

\* AssistantSettings.  Optional numbers are None or Some(n).
DefaultSettings ==
    [instanceName |-> "A", personality |-> "p1", responseMimeType |-> TextPlain,
     temperature |-> Some(8), topK |-> None, topP |-> None, seed |-> None,
     enableGoogleSearch |-> FALSE, disableThinking |-> FALSE,
     googleClientId |-> Null, googleApiKey |-> Null]

\* The settings values of the model: the default, every change of one field, and
\* JSON replies asked for together with search.
SettingsValues ==
    {DefaultSettings,
     [DefaultSettings EXCEPT !.instanceName = "B"],
     [DefaultSettings EXCEPT !.personality = "p2"],
     [DefaultSettings EXCEPT !.responseMimeType = ApplicationJson],
     [DefaultSettings EXCEPT !.temperature = None],
     [DefaultSettings EXCEPT !.topK = Some(40)],
     [DefaultSettings EXCEPT !.topP = Some(1)],
     [DefaultSettings EXCEPT !.seed = Some(7)],
     [DefaultSettings EXCEPT !.enableGoogleSearch = TRUE],
     [DefaultSettings EXCEPT !.disableThinking = TRUE],
     [DefaultSettings EXCEPT !.googleClientId = "client"],
     [DefaultSettings EXCEPT !.googleApiKey = "key"],
     [DefaultSettings EXCEPT !.enableGoogleSearch = TRUE,
                             !.responseMimeType = ApplicationJson]}

\* The mime type a session is configured with for given settings.
resolvedResponseMimeType(s) ==
    IF s.enableGoogleSearch /\ s.responseMimeType = ApplicationJson
    THEN TextPlain ELSE s.responseMimeType

\* A GeminiService after construction; awaiting counts its sendMessage calls
\* that wait for the model's reply.
NewGemini == [chat |-> None, chatHistory |-> "empty", currentSettings |-> None,
              awaiting |-> 0]

\* initializeChat: ai.chats.create and the record of the settings used.
initializeChat(g, s) ==
    [g EXCEPT !.chat = Some([createdWith |-> s,
                             responseMimeType |-> resolvedResponseMimeType(s),
                             googleSearch |-> s.enableGoogleSearch]),
              !.currentSettings =
                  Some([s EXCEPT !.responseMimeType = resolvedResponseMimeType(s)])]

\* resetChatHistory
resetChatHistory(g) ==
    [g EXCEPT !.chat = None, !.chatHistory = "empty", !.currentSettings = None]

\* A plausible slip: the new settings' mime type compared as given.
settingsHaveChangedRawMime(g, new) ==
    IF g.currentSettings = None THEN TRUE
    ELSE LET cur == Val(g.currentSettings)
         IN  \/ cur.personality /= new.personality
             \/ cur.temperature /= new.temperature
             \/ cur.topK /= new.topK
             \/ cur.topP /= new.topP
             \/ cur.seed /= new.seed
             \/ cur.responseMimeType /= new.responseMimeType
             \/ cur.enableGoogleSearch /= new.enableGoogleSearch
             \/ cur.disableThinking /= new.disableThinking
             \/ cur.googleClientId /= new.googleClientId
             \/ cur.googleApiKey /= new.googleApiKey

\* settingsHaveChanged
settingsHaveChanged(g, new) ==
    IF g.currentSettings = None THEN TRUE
    ELSE LET cur == Val(g.currentSettings)
             effectiveNewResponseMimeType ==
                 IF new.enableGoogleSearch /\ new.responseMimeType = ApplicationJson
                 THEN TextPlain ELSE new.responseMimeType
         IN  \/ cur.personality /= new.personality
             \/ cur.temperature /= new.temperature
             \/ cur.topK /= new.topK
             \/ cur.topP /= new.topP
             \/ cur.seed /= new.seed
             \/ cur.responseMimeType /= effectiveNewResponseMimeType
             \/ cur.enableGoogleSearch /= new.enableGoogleSearch
             \/ cur.disableThinking /= new.disableThinking
             \/ cur.googleClientId /= new.googleClientId
             \/ cur.googleApiKey /= new.googleApiKey

\* The condition under which sendMessage re-initializes the chat.
reinitializes(g, s) == g.chat = None \/ settingsHaveChanged(g, s)

\* sendMessage up to its await of chat.sendMessage.
sendMessageStart(g, s) ==
    IF reinitializes(g, s)
    THEN initializeChat([g EXCEPT !.chatHistory = "currentMessages"], s)
    ELSE g

\* ---- replies.  A reply's text is empty, or a body that may sit in a code
\* fence.  A body is either no JSON at all or a JSON value, of which the model
\* keeps what isValidCalendarAction looks at.
JsonValue(type, action, event, query, updates) ==
    [type |-> type, action |-> action, event |-> event, event_query |-> query,
     updates |-> updates]
\* 'event' / 'event_query': "absent", "no title", "no date" or "complete"
Bodies ==
    {[json |-> FALSE, value |-> JsonValue("none", Null, "absent", "absent", FALSE)],
     [json |-> TRUE, value |-> JsonValue("null", Null, "absent", "absent", FALSE)],
     [json |-> TRUE, value |-> JsonValue("array", Null, "absent", "absent", FALSE)],
     [json |-> TRUE, value |-> JsonValue("object", Null, "complete", "absent", FALSE)],
     [json |-> TRUE, value |-> JsonValue("object", "list_events", "complete", "complete", TRUE)],
     [json |-> TRUE, value |-> JsonValue("object", "add_event", "complete", "absent", FALSE)],
     [json |-> TRUE, value |-> JsonValue("object", "add_event", "no date", "absent", FALSE)],
     [json |-> TRUE, value |-> JsonValue("object", "add_event", "absent", "complete", FALSE)],
     [json |-> TRUE, value |-> JsonValue("object", "delete_event", "absent", "complete", FALSE)],
     [json |-> TRUE, value |-> JsonValue("object", "delete_event", "absent", "no title", FALSE)],
     [json |-> TRUE, value |-> JsonValue("object", "update_event", "absent", "complete", TRUE)],
     [json |-> TRUE, value |-> JsonValue("object", "update_event", "absent", "complete", FALSE)]}
EmptyReply == [empty |-> TRUE, fenced |-> FALSE,
               body |-> [json |-> FALSE, value |-> JsonValue("none", Null, "absent", "absent", FALSE)]]
Replies == {EmptyReply} \cup [empty : {FALSE}, fenced : BOOLEAN, body : Bodies]

\* isValidCalendarAction
isValidCalendarAction(obj) ==
    IF obj.type \in {"null", "none"} \/ obj.action = Null THEN FALSE
    ELSE IF obj.action \notin {"add_event", "update_event", "delete_event"} THEN FALSE
    ELSE IF obj.action = "add_event" THEN obj.event = "complete"
    ELSE IF obj.action = "update_event" THEN obj.event_query \in {"complete", "no date"} /\ obj.updates
    ELSE obj.event_query \in {"complete", "no date"}

\* A plausible slip: the parse gated by the mime type the settings asked for.
parsesJsonAsAsked(g) ==
    g.chat /= None /\ Val(g.chat).createdWith.responseMimeType = ApplicationJson

\* this.currentSettings?.responseMimeType === 'application/json'
parsesJson(g) ==
    g.currentSettings /= None /\ Val(g.currentSettings).responseMimeType = ApplicationJson

\* The part of sendMessage after the reply arrived: trim, strip an enclosing
\* fence, JSON.parse, isValidCalendarAction.  The fence regex leaves the body;
\* JSON.parse throws on what is no JSON.
parsedCalendarAction(g, reply) ==
    /\ parsesJson(g)
    /\ ~reply.empty
    /\ reply.body.json
    /\ isValidCalendarAction(reply.body.value)

\* The GeminiServiceResponse sendMessage returns for a reply.
sendMessageResponse(g, reply) ==
    [text |-> reply, parsedCalendarAction |-> parsedCalendarAction(g, reply)]

\* ---- App's side
GoogleCalendarStatus == {"Connected", "Not Connected"}

\* dynamicSettings of handleSendMessage: the personality with its placeholders
\* filled in, here with the Google Calendar status.
dynamicSettings(s, status) == [s EXCEPT !.personality = <<@, status>>]

\* updateSettingsCallback as it would be without its override of the mime type.
updateSettingsAsGiven(prev, partial) ==
    [partial EXCEPT !.instanceName = prev.instanceName]

\* The state update of updateSettingsCallback.
updateSettings(prev, partial) ==
    LET updated == [partial EXCEPT !.instanceName = prev.instanceName]
    IN  IF updated.enableGoogleSearch /\ updated.responseMimeType = ApplicationJson
        THEN [updated EXCEPT !.responseMimeType = TextPlain]
        ELSE updated

\* chatLog.last describes the GeminiService call of the last step; chatLog.prevSend
\* is the sendMessage call before it, forgotten when the history is reset.
NoChatOp == [op |-> "none", settings |-> None, sessionBefore |-> None, created |-> FALSE,
             reply |-> EmptyReply, threw |-> FALSE,
             response |-> [text |-> EmptyReply, parsedCalendarAction |-> FALSE],
             session |-> None, prevSend |-> None]

OtherThanChat == UNCHANGED <<authVars, pinVars, calVars, resVars, storeVars, sessVars>>

\* handleSendMessage reaches geminiService.sendMessage, which runs up to its
\* await of the reply.
SendStart ==
    /\ gem.awaiting < MaxAwaiting
    /\ \E status \in GoogleCalendarStatus :
          LET s == dynamicSettings(settings, status)
              g == sendMessageStart(gem, s)
          IN  /\ gem' = [g EXCEPT !.awaiting = @ + 1]
              /\ chatLog' = [last |-> [NoChatOp EXCEPT
                                          !.op = "send", !.settings = Some(s),
                                          !.sessionBefore = gem.chat,
                                          !.created = reinitializes(gem, s),
                                          !.session = g.chat,
                                          !.prevSend = chatLog.prevSend],
                             prevSend |-> Some([settings |-> s,
                                                created |-> reinitializes(gem, s)])]
    /\ UNCHANGED settings
    /\ OtherThanChat

\* The reply arrives (ok) or the API call fails, and sendMessage finishes.
SendReturn ==
    /\ gem.awaiting > 0
    /\ \E reply \in Replies, ok \in BOOLEAN :
          /\ ~ok => reply = EmptyReply        \* no reply is read then
          /\ gem' = [gem EXCEPT !.awaiting = @ - 1]
          /\ chatLog' = [chatLog EXCEPT !.last =
                            [NoChatOp EXCEPT !.op = "reply", !.reply = reply,
                                             !.response = IF ok
                                                 THEN sendMessageResponse(gem, reply)
                                                 ELSE @,
                                             !.threw = ~ok,
                                             !.session = gem.chat]]
    /\ UNCHANGED settings
    /\ OtherThanChat

\* clearChat: geminiService.resetChatHistory()
ClearChat ==
    /\ gem' = resetChatHistory(gem)
    /\ chatLog' = [last |-> NoChatOp, prevSend |-> None]
    /\ gem' /= gem \/ chatLog' /= chatLog
    /\ UNCHANGED settings
    /\ OtherThanChat

\* The settings view saves new settings.
UpdateSettings ==
    /\ \E partial \in SettingsValues :
          /\ settings' = updateSettings(settings, partial)
          /\ settings' /= settings
          /\ chatLog' = [chatLog EXCEPT !.last = [NoChatOp EXCEPT !.op = "updateSettings",
                                                                !.settings = Some(partial)]]
    /\ UNCHANGED gem
    /\ OtherThanChat

\* The settings are those of the stored instance data, which nothing normalizes
\* on load.
InitChat ==
    /\ gem = NewGemini
    /\ settings \in SettingsValues
    /\ chatLog = [last |-> NoChatOp, prevSend |-> None]

NextChat ==
    \/ SendStart
    \/ SendReturn
    \/ ClearChat
    \/ UpdateSettings

(***************************************************************************)
(* storageService: instance data kept in localStorage                      *)
(***************************************************************************)
OtherThanStore == UNCHANGED <<authVars, pinVars, calVars, chatVars, resVars, persist, sessVars>>

\* A multi-line string is the sequence of its lines; '' is one empty line.  A
\* line records the four digits of a 'PIN: dddd' it contains (Null: none),
\* whether that text starts the line, and the rest of the line.
TextLine(text) == [pin |-> Null, atStart |-> FALSE, rest |-> text]
EmptyString == <<TextLine("")>>
PinLine(pin) == [pin |-> pin, atStart |-> TRUE, rest |-> ""]
NameLine(instanceName) ==
    TextLine(IF Truthy(instanceName)
             THEN "This assistant's name is " \o instanceName \o "."
             ELSE "This assistant's name is this assistant.")

\* information.includes(`PIN: ${pin}`)
includes(information, pin) ==
    \E i \in 1..Len(information) : information[i].pin = pin

\* information.replace(/^PIN: \d{4}\n?/, ''): removes 'PIN: dddd' and the line
\* break after it at the very start of the string.
replaceLeadingPin(information) ==
    LET first == Head(information)
    IN  IF first.atStart /\ first.pin /= Null
        THEN IF first.rest = ""
             THEN IF Len(information) > 1 THEN Tail(information) ELSE EmptyString
             ELSE <<TextLine(first.rest)>> \o Tail(information)
        ELSE information

\* JSON.stringify of an object leaves out the properties that are undefined;
\* reading a property the parsed object lacks gives undefined.
JSONstringify(object, optional) ==
    [k \in {key \in DOMAIN object : ~(key \in optional /\ object[key] = Null)} |-> object[k]]
Property(object, key) == IF key \in DOMAIN object THEN object[key] ELSE Null
MapSeq(Op(_), seq) == [i \in 1..Len(seq) |-> Op(seq[i])]

stringifySettings(st) == JSONstringify(st, {"instanceName"})
parseSettings(o) ==
    [instanceName |-> Property(o, "instanceName"),
     responseMimeType |-> Property(o, "responseMimeType"),
     enableGoogleSearch |-> Property(o, "enableGoogleSearch")]
stringifyEvent(ev) == JSONstringify(ev, {"time"})
parseEvent(o) ==
    [id |-> Property(o, "id"), title |-> Property(o, "title"),
     date |-> Property(o, "date"), time |-> Property(o, "time")]
stringifyMemory(m) == JSONstringify(m, {"pin"})
parseMemory(o) ==
    [information |-> Property(o, "information"),
     permanentRequests |-> Property(o, "permanentRequests"),
     pin |-> Property(o, "pin")]
\* doc => ({ id, name, textContent }): the File object is not stored
serializableDocument(doc) == [id |-> doc.id, name |-> doc.name, textContent |-> doc.textContent]
parseDocument(o) ==
    [id |-> Property(o, "id"), name |-> Property(o, "name"),
     textContent |-> Property(o, "textContent"), file |-> Property(o, "file")]

\* saveInstanceData: the value written under assistant_instance_<id>.
serializableData(data) ==
    [settings |-> stringifySettings(data.settings),
     chatMessages |-> data.chatMessages,
     documents |-> MapSeq(serializableDocument, data.documents),
     calendarEvents |-> MapSeq(stringifyEvent, data.calendarEvents),
     memoryStore |-> stringifyMemory(data.memoryStore)]

JSONparse(raw) ==
    [settings |-> parseSettings(raw.settings),
     chatMessages |-> raw.chatMessages,
     documents |-> MapSeq(parseDocument, raw.documents),
     calendarEvents |-> MapSeq(parseEvent, raw.calendarEvents),
     memoryStore |-> parseMemory(raw.memoryStore)]

NoEntry == <<>>
NotFound == [found |-> FALSE]
Found(data) == [found |-> TRUE, data |-> data]

\* getInstanceData as it would be without the removal of a leading PIN line.
getInstanceDataKeepsLeadingPin(entry) ==
    IF entry = NoEntry THEN NotFound
    ELSE LET data == JSONparse(entry[1])
             m == data.memoryStore
         IN  IF Truthy(m.pin) /\ ~includes(m.information, m.pin)
             THEN LET baseInfo == IF m.information /= EmptyString
                                  THEN m.information
                                  ELSE <<NameLine(data.settings.instanceName)>>
                  IN  Found([data EXCEPT !.memoryStore.information =
                                             <<PinLine(m.pin)>> \o baseInfo])
             ELSE Found(data)

\* getInstanceData: the stored data, with the 'PIN: <pin>' line put back at the
\* head of memoryStore.information when the information does not contain it.
getInstanceData(entry) ==
    IF entry = NoEntry THEN NotFound
    ELSE LET data == JSONparse(entry[1])
             m == data.memoryStore
         IN  IF Truthy(m.pin) /\ ~includes(m.information, m.pin)
             THEN LET baseInfo == IF m.information /= EmptyString
                                  THEN replaceLeadingPin(m.information)
                                  ELSE <<NameLine(data.settings.instanceName)>>
                  IN  Found([data EXCEPT !.memoryStore.information =
                                             <<PinLine(m.pin)>> \o baseInfo])
             ELSE Found(data)

getDefaultSettings(instanceName) ==
    [instanceName |-> instanceName, responseMimeType |-> "text/plain",
     enableGoogleSearch |-> TRUE]
getDefaultMemoryStore(pin, instanceName) ==
    [information |-> <<PinLine(pin), NameLine(instanceName)>>,
     permanentRequests |-> EmptyString, pin |-> pin]

\* ---- the data the application saves
InstanceIds == {"inst1", "inst2"}
InstanceNames == {Null, "Ada"}
StorePins == {Null, "1234"}
Informations ==
    {EmptyString,
     <<TextLine("likes tea")>>,
     <<PinLine("1234"), TextLine("likes tea")>>,
     <<PinLine("5678")>>,
     <<PinLine("5678"), TextLine("likes tea")>>,
     <<[pin |-> "5678", atStart |-> TRUE, rest |-> " was the old one"]>>,
     <<TextLine("likes tea"), [pin |-> "1234", atStart |-> FALSE, rest |-> "the code is "]>>}
StoredSettings ==
    {[instanceName |-> n, responseMimeType |-> "application/json",
      enableGoogleSearch |-> FALSE] : n \in InstanceNames}
StoredMemories ==
    {[information |-> i, permanentRequests |-> <<TextLine("be brief")>>, pin |-> p] :
        i \in Informations, p \in StorePins}
StoredContents ==
    {[chatMessages |-> <<>>, documents |-> <<>>, calendarEvents |-> <<>>],
     [chatMessages |-> <<[id |-> "1000", role |-> "user", text |-> "hi", timestamp |-> 1000],
                         [id |-> "1001", role |-> "model", text |-> "", timestamp |-> 1000]>>,
      documents |-> <<[id |-> "d1", name |-> "a.pdf", textContent |-> "text", file |-> Null],
                      [id |-> "d2", name |-> "b.txt", textContent |-> "", file |-> "File"]>>,
      calendarEvents |-> <<[id |-> "e2", title |-> "Sync", date |-> "2024-07-28", time |-> "14:30"],
                           [id |-> "e1", title |-> "Lunch", date |-> "2024-07-28", time |-> Null]>>]}
InstanceDatas ==
    {[settings |-> st, chatMessages |-> c.chatMessages, documents |-> c.documents,
      calendarEvents |-> c.calendarEvents, memoryStore |-> m] :
        st \in StoredSettings, c \in StoredContents, m \in StoredMemories}

NoStoreCall == [op |-> "none"]

\* createNewInstance(name, pin): the default data written for a new instance.
CreateNewInstance ==
    /\ \E id \in InstanceIds, name \in InstanceNames \ {Null}, pin \in StorePins \ {Null} :
          /\ instanceStore[id] = NoEntry
          /\ LET defaultInstanceData ==
                     [settings |-> getDefaultSettings(name), chatMessages |-> <<>>,
                      documents |-> <<>>, calendarEvents |-> <<>>,
                      memoryStore |-> getDefaultMemoryStore(pin, name)]
             IN  /\ instanceStore' = [instanceStore EXCEPT
                                         ![id] = <<serializableData(defaultInstanceData)>>]
                 /\ storeLog' = [saved |-> [storeLog.saved EXCEPT ![id] = <<defaultInstanceData>>],
                                 last |-> [op |-> "create", id |-> id]]
    /\ OtherThanStore

\* saveInstanceData(instanceId, data)
SaveInstanceData ==
    /\ \E id \in InstanceIds, data \in InstanceDatas :
          /\ instanceStore' = [instanceStore EXCEPT ![id] = <<serializableData(data)>>]
          /\ storeLog' = [saved |-> [storeLog.saved EXCEPT ![id] = <<data>>],
                          last |-> [op |-> "save", id |-> id]]
    /\ OtherThanStore

\* getInstanceData(instanceId)
GetInstanceData ==
    /\ \E id \in InstanceIds :
          storeLog' = [storeLog EXCEPT
                          !.last = [op |-> "get", id |-> id,
                                    result |-> getInstanceData(instanceStore[id])]]
    /\ UNCHANGED instanceStore
    /\ OtherThanStore

InitStore ==
    /\ instanceStore = [id \in InstanceIds |-> NoEntry]
    /\ storeLog = [saved |-> [id \in InstanceIds |-> NoEntry], last |-> NoStoreCall]

NextStore ==
    \/ CreateNewInstance
    \/ SaveInstanceData
    \/ GetInstanceData

(***************************************************************************)
(* MainOrchestrator.saveInstanceDataCallback and the saves App issues      *)
(***************************************************************************)
OtherThanPersist ==
    UNCHANGED <<authVars, pinVars, calVars, chatVars, resVars, instanceStore, storeLog, sessVars>>

\* The fields of InstanceData.  A field's value is identified by the number of
\* the save that produced it (0: the value loaded when the instance was opened).
DataFields == {"settings", "chatMessages", "documents", "calendarEvents", "memoryStore"}
LoadedData == [f \in DataFields |-> 0]

\* stored: the instance's entry in localStorage; current: MainOrchestrator's
\* currentInstanceData; latest: per field, the value of the latest save issued;
\* send: the closure of a handleSendMessage suspended at geminiService.sendMessage;
\* handlers: the number of handlers run.
InitPersist ==
    [stored |-> LoadedData, current |-> LoadedData, latest |-> LoadedData,
     send |-> None, handlers |-> 0]

\* saveInstanceDataCallback({field: value}), called through the onSaveInstanceData
\* of a render whose currentInstanceData was closure: newData is the closure's
\* data with the field replaced; it becomes currentInstanceData and is stored.
saveInstanceDataCallback(p, closure, field) ==
    LET value == p.latest[field] + 1
        newData == [closure EXCEPT ![field] = value]
    IN  [p EXCEPT !.current = newData, !.stored = newData, !.latest[field] = value]

\* The saves a handler issues, in order, all through the onSaveInstanceData its
\* render captured.
RECURSIVE saveEach(_, _, _)
saveEach(p, closure, fields) ==
    IF fields = <<>> THEN p
    ELSE saveEach(saveInstanceDataCallback(p, closure, Head(fields)), closure, Tail(fields))

\* Handlers that run without waiting for the network, and the fields they save.
HandlerSaves ==
    [addSystemMessage |-> <<"chatMessages">>,
     addDocument |-> <<"documents", "chatMessages">>,
     addCalendarEventInternal |-> <<"chatMessages", "calendarEvents">>,
     removeEventFromCalendarView |-> <<"calendarEvents", "chatMessages">>,
     updateSettingsCallback |-> <<"settings">>,
     updateMemoryStoreCallback |-> <<"memoryStore">>,
     clearChat |-> <<"chatMessages", "chatMessages">>]

\* What handleSendMessage saves once geminiService.sendMessage has settled: the
\* model message, the error message, or the model message followed by the saves
\* of the calendar action's addCalendarEventInternal.
SendOutcomes ==
    [reply |-> <<"chatMessages">>,
     error |-> <<"chatMessages">>,
     replyWithAddEvent |-> <<"chatMessages", "chatMessages", "calendarEvents">>]

\* A handler of the current render runs to its end.
RunHandler ==
    /\ persist.handlers < MaxHandlers
    /\ \E h \in DOMAIN HandlerSaves :
          persist' = [saveEach(persist, persist.current, HandlerSaves[h])
                         EXCEPT !.handlers = @ + 1]
    /\ OtherThanPersist

\* handleSendMessage up to the await of geminiService.sendMessage: the user
\* message is saved.
SendMessageStart ==
    /\ persist.handlers < MaxHandlers
    /\ persist.send = None
    /\ persist' = [saveInstanceDataCallback(persist, persist.current, "chatMessages")
                      EXCEPT !.send = Some(persist.current), !.handlers = @ + 1]
    /\ OtherThanPersist

\* handleSendMessage after the await, still with the closure it started with.
SendMessageSettled ==
    /\ persist.send /= None
    /\ \E o \in DOMAIN SendOutcomes :
          persist' = [saveEach(persist, Val(persist.send), SendOutcomes[o])
                         EXCEPT !.send = None]
    /\ OtherThanPersist

InitPers == persist = InitPersist

NextPersist ==
    \/ RunHandler
    \/ SendMessageStart
    \/ SendMessageSettled

(***************************************************************************)
(* App.handleGoogleSignOut, with the calendar events of the instance data  *)
(***************************************************************************)
OtherThanSess == UNCHANGED <<authVars, pinVars, calVars, chatVars, resVars, storeVars>>

\* calendarEvents: App's list; current: the calendarEvents of MainOrchestrator's
\* currentInstanceData, which the onSaveInstanceData of the latest render merges
\* into; stored: the calendarEvents of the stored instance data; fetch: the
\* closure of a fetchGoogleCalendarEvents awaiting listEvents; last: the handler
\* that completed in the last step and the list before it.
NoSessOp == [op |-> "none", before |-> <<>>, deferred |-> FALSE]
InitSession ==
    [isSignedIn |-> FALSE, calendarEvents |-> <<>>, current |-> <<>>, stored |-> <<>>,
     fetch |-> None, created |-> 0, last |-> NoSessOp]

\* onSaveInstanceData({calendarEvents: list}): newData is the closure's data with
\* the calendar events replaced.
saveCalendarEvents(w, list) == [w EXCEPT !.current = list, !.stored = list]
\* onSaveInstanceData of another field (chatMessages) through a render whose
\* currentInstanceData held closureEvents: newData keeps the closure's calendar
\* events.
saveOtherField(w, closureEvents) ==
    [w EXCEPT !.current = closureEvents, !.stored = closureEvents]

notGoogleEvents(list) == SelectSeq(list, LAMBDA e : ~e.isGoogleEvent)

\* The events the provider holds when listEvents asks for them.
ProviderLists ==
    {<<>>,
     <<ProviderItem("F1", [summary |-> "Gym", start |-> AllDay("2025-01-01"),
                           end |-> AllDay("2025-01-02")])>>,
     <<ProviderItem("F1", [summary |-> "Gym", start |-> AllDay("2025-01-01"),
                           end |-> AllDay("2025-01-02")]),
       ProviderItem("F2", [summary |-> "Tea", start |-> Timed("2025-01-02", "09:00", 0),
                           end |-> Timed("2025-01-02", "09:00", 1)])>>}

\* addCalendarEventInternal, local branch: the system message's save and then
\* the save of the sorted list, both from the updaters of the next render.
SessAddLocal ==
    /\ ~sess.isSignedIn
    /\ sess.created < MaxLocalEvents
    /\ \E data \in ValidEventData :
          LET ev == LocalEvent(LocalId(sess.created + 1), data)
          IN  \E sorted \in SortOutcomes(Append(sess.calendarEvents, ev)) :
                 sess' = [saveCalendarEvents(saveOtherField(sess, sess.current), sorted)
                            EXCEPT !.calendarEvents = sorted, !.created = @ + 1,
                                   !.last = [NoSessOp EXCEPT !.op = "add",
                                                            !.before = sess.calendarEvents]]
    /\ OtherThanSess

\* The auth client reports a signed-in state; the effect calls
\* fetchGoogleCalendarEvents, which runs up to its await of listEvents.
SessSignIn ==
    /\ ~sess.isSignedIn
    /\ sess.fetch = None
    /\ sess' = [sess EXCEPT !.isSignedIn = TRUE, !.fetch = Some(sess.current),
                            !.last = NoSessOp]
    /\ OtherThanSess

\* listEvents returns to fetchGoogleCalendarEvents: the list is replaced and
\* saved; when listEvents threw, a system message is saved instead.
SessFetchReturn ==
    /\ sess.fetch /= None
    /\ \E items \in ProviderLists, ready \in BOOLEAN, net \in NetOutcomes :
          LET r == listEvents(calImpl, ready, net, items)
              done == [sess EXCEPT !.fetch = None,
                                   !.last = [NoSessOp EXCEPT !.op = "fetch",
                                                            !.before = sess.calendarEvents]]
          IN  sess' = IF r.kind = "events"
                      THEN [saveCalendarEvents(done, r.events) EXCEPT !.calendarEvents = r.events]
                      ELSE saveOtherField(done, Val(sess.fetch))
    /\ OtherThanSess

\* handleGoogleSignOut: authService.signOut(), addSystemMessage, the removal of
\* the Google events from the list by a state updater, and the direct save of
\* the filtered list of this render.  The save made by addSystemMessage's
\* updater runs before the direct save when React computes the state eagerly,
\* and with the next render, after it, when an update is already pending
\* (deferred).
handleGoogleSignOut(w, deferred) ==
    LET kept == notGoogleEvents(w.calendarEvents)
        closureEvents == w.current
        saved == IF deferred
                 THEN saveOtherField(saveCalendarEvents(w, kept), closureEvents)
                 ELSE saveCalendarEvents(saveOtherField(w, closureEvents), kept)
    IN  [saved EXCEPT !.calendarEvents = kept]

\* The PKCE client's signOut notifies App synchronously, so an update is pending
\* when addSystemMessage sets its state; the gapi/GSI client notifies from the
\* revocation callback, and whether an update is pending depends on the rest
\* of the application.
SessSignOut ==
    /\ sess.isSignedIn
    /\ \E deferred \in (IF authImpl = "pkce" THEN {TRUE} ELSE BOOLEAN) :
          sess' = [handleGoogleSignOut(sess, deferred)
                     EXCEPT !.isSignedIn = FALSE,
                            !.last = [op |-> "signOut", before |-> sess.calendarEvents,
                                      deferred |-> deferred]]
    /\ OtherThanSess

InitSess == sess = InitSession

NextSess ==
    \/ SessAddLocal
    \/ SessSignIn
    \/ SessFetchReturn
    \/ SessSignOut

(***************************************************************************)
(* Specifications: each component is checked with the others idle          *)
(***************************************************************************)
Init == InitAuth /\ InitPin /\ InitCal /\ InitChat /\ InitRes /\ InitStore /\ InitPers /\ InitSess

IdleAuth == authImpl = "pkce" /\ localStorage = EmptyStorage
IdleChat == settings = DefaultSettings
IdleRes == adapterCall = NoAdapterCall

InitAuthOnly == Init /\ IdleChat /\ IdleRes
InitPinOnly == Init /\ IdleAuth /\ IdleChat /\ IdleRes
\* the calendar handlers depend on which auth client is in use
InitCalOnly == Init /\ localStorage = EmptyStorage /\ IdleChat /\ IdleRes
InitChatOnly == Init /\ IdleAuth /\ IdleRes
InitResOnly == Init /\ IdleAuth /\ IdleChat
InitStoreOnly == Init /\ IdleAuth /\ IdleChat /\ IdleRes

SpecAuth == InitAuthOnly /\ [][NextAuth]_vars
SpecPin == InitPinOnly /\ [][NextPin]_vars
SpecCal == InitCalOnly /\ [][NextCal]_vars
SpecChat == InitChatOnly /\ [][NextChat]_vars
SpecRes == InitResOnly /\ [][NextRes]_vars
SpecStore == InitStoreOnly /\ [][NextStore]_vars
SpecPersist == InitStoreOnly /\ [][NextPersist]_vars
SpecSess == InitCalOnly /\ [][NextSess]_vars

(***************************************************************************)
(* Claims about the auth client (checked under SpecAuth)                   *)
(***************************************************************************)
LastGet == authLog.lastOp.op = "getAccessToken"
AllTokenStateCleared ==
    /\ auth.accessToken = Null
    /\ auth.tokenExpiryTime = None
    /\ auth.refreshToken = Null
    /\ localStorage = EmptyStorage

\* C1: getAccessToken returns the held access token if and only if a token is held
\* and its stored expiry is strictly greater than the current time; in every other
\* case (no token, no expiry, expiry <= now) it returns null.
C1_GetAccessTokenIffLive ==
    LastGet =>
        LET op == authLog.lastOp
            held == op.heldToken /= Null
            later == IsSome(op.heldExpiry) /\ Val(op.heldExpiry) > op.at
        IN  /\ (held /\ later) => op.result = op.heldToken
            /\ ~(held /\ later) => op.result = Null
            /\ op.result /= Null <=> (held /\ later)

\* C1 witness: the boundary: a call made at the very millisecond of the held
\* token's expiry, answered with null.
C1_Witness ==
    /\ LastGet
    /\ authLog.lastOp.heldToken /= Null
    /\ authLog.lastOp.heldExpiry = Some(authLog.lastOp.at)
    /\ authLog.lastOp.result = Null

\* C2: once getAccessToken has observed an expired token, the in-memory token,
\* expiry and refresh token and the four persisted entries are cleared, the
\* listener has been told isSignedIn=false, and getAccessToken keeps returning
\* null until a new token is saved by a sign-in.
C2_ExpiryInvalidates ==
    /\ (LastGet /\ authLog.lastOp.expired) =>
            /\ AllTokenStateCleared
            /\ googleAuthState = SignedOut("Session expired.")
            /\ authLog.lastOp.result = Null
    /\ authLog.invalidated => getAccessTokenResult(auth, now) = Null

\* C2 witness: an expired token was observed by the PKCE client while a refresh
\* token was held, and a later call found nothing again.
C2_Witness ==
    /\ LastGet
    /\ authLog.invalidated
    /\ authLog.lastOp.heldToken = Null
    /\ authImpl = "pkce"

\* C9 (as claimed): every state the client produces, those produced while it is
\* being constructed included, is delivered to the callback App registers.
C9_EveryStateDelivered == authLog.dropped = {}

LastRestore ==
    \/ authLog.lastOp.op = "construct" /\ authImpl = "pkce"
    \/ authLog.lastOp.op = "init" /\ authLog.lastOp.ok

\* An access token and an expiry are stored and the expiry is later than t.
StoredSessionIsLive(stored, t) ==
    /\ stored.google_access_token /= Null
    /\ stored.google_token_expiry /= Null
    /\ IsSome(ParseInt(stored.google_token_expiry))
    /\ Val(ParseInt(stored.google_token_expiry)) > t

C13_ExchangeOutcome ==
    LET op == authLog.lastOp
    IN  /\ (op.op = "construct" /\ pending.exchange) =>
               op.redirect /\ op.stored.google_code_verifier /= Null
        /\ (op.op = "exchange" /\ op.ok /\ ~op.failed) =>
               /\ auth.accessToken = op.token
               /\ auth.tokenExpiryTime = Some(op.at + op.expiresIn * MsPerSecond)
               /\ localStorage.google_access_token = op.token
               /\ localStorage.google_token_expiry =
                      NumToString(op.at + op.expiresIn * MsPerSecond)
               /\ op.refresh /= Null =>
                      /\ auth.refreshToken = op.refresh
                      /\ localStorage.google_refresh_token = op.refresh
               /\ pending.profile > 0
        /\ (op.op = "exchange" /\ (~op.ok \/ op.failed)) =>
               /\ AllTokenStateCleared
               /\ ~googleAuthState.isSignedIn
               /\ googleAuthState.accessToken = Null
               /\ googleAuthState.error /= Null
        /\ op.op = "profile" => googleAuthState.isSignedIn

\* C13 witness: the request of an exchange failed while a restored session with
\* a refresh token was held, and everything was cleared.
C13_Witness ==
    /\ authLog.lastOp.op = "exchange"
    /\ authLog.lastOp.failed
    /\ authLog.lastOp.heldRefresh /= Null
    /\ googleAuthState = SignedOut("Token exchange failed.")

\* C16 (as claimed): every signed-in state delivered to the listener carries an
\* access token, also when the tokens were cleared while a profile fetch was in
\* flight.
C16_SignedInCarriesToken ==
    googleAuthState.isSignedIn => googleAuthState.accessToken /= Null

\* C17 (as claimed): getAccessToken notifies the 'Session expired.' sign-out only
\* when a token was held and has expired; when no token is held it returns null,
\* notifies nothing and changes no stored state.
C17_NoTokenNoEffect ==
    (LastGet /\ authLog.lastOp.heldToken = Null) =>
        /\ authLog.lastOp.result = Null
        /\ googleAuthState = authLog.lastOp.stateBefore
        /\ localStorage = authLog.lastOp.stored

\* C18 (as claimed): after every operation of an initialized auth client (token
\* save, session restore, sign-out, sign-in error callback, expiry check) the
\* client holds an access token if and only if the access-token and expiry
\* entries are in localStorage, with the same values.
C18_MemoryAgreesWithStorage ==
    (/\ page = "loaded"
     /\ authImpl = "gsi" => auth.tokenClient
     /\ authLog.lastOp.op \in {"construct", "init", "exchange", "tokenResponse",
                               "signOut", "getAccessToken"}) =>
        /\ auth.accessToken = localStorage.google_access_token
        /\ IF auth.accessToken = Null
           THEN localStorage.google_token_expiry = Null
           ELSE /\ IsSome(auth.tokenExpiryTime)
                /\ localStorage.google_token_expiry = NumToString(Val(auth.tokenExpiryTime))

(***************************************************************************)
(* Claims about the calendar handlers and adapters (checked under SpecCal) *)
(***************************************************************************)
ByQuery == calLog.op \in {"removeByQuery", "updateByQuery"}

\* The claimed matching rule, for the event at index i of the list the handler
\* searched: Google events when signed in and local events otherwise, titles
\* equal up to case, and the date equal when the query gives one.
ClaimedMatch(i) ==
    LET e == calLog.read[i]
        q == calLog.query
    IN  /\ e.isGoogleEvent = calLog.signedIn
        /\ toLowerCase(e.title) = toLowerCase(q.title)
        /\ (q.date /= Null => e.date = q.date)
ClaimedMatches == {i \in 1..Len(calLog.read) : ClaimedMatch(i)}
IdsOf(list) == {list[i].id : i \in 1..Len(list)}

C5_LocalRemovalOnlyAfterRemoteDelete ==
    (/\ calLog.op \in {"removeByQuery", "removeFromView"}
     /\ calLog.signedIn
     /\ calLog.outcome \in {"false", "throw"}) =>
        /\ calLog.acted \in IdsOf(calLog.before) => calLog.acted \in IdsOf(cal.calendarEvents)
        /\ calLog.op = "removeByQuery" => calLog.result = FALSE

\* C6 (as claimed): when a request of an adapter operation fails at the network,
\* the operation catches the error and returns its failure value: listEvents an
\* empty list, createEvent and updateEvent null, deleteEvent false.
C6_NetworkFailureReturnsFailureValue ==
    calLog.netFailed =>
        /\ calLog.op = "fetch" => calLog.outcome = "events" /\ cal.calendarEvents = <<>>
        /\ calLog.op \in {"add", "updateByQuery"} => calLog.outcome = "null"
        /\ calLog.op \in {"removeByQuery", "removeFromView"} => calLog.outcome = "false"

C21_FetchKeepsLocalEvents ==
    calLog.op = "fetch" =>
        \A k \in 1..Len(calLog.before) :
            ~calLog.before[k].isGoogleEvent =>
                \E m \in 1..Len(cal.calendarEvents) :
                    cal.calendarEvents[m] = calLog.before[k]

\* The minutes of the day of a time 'HH:MM'.
TimeValue(t) == CASE t = "09:00" -> 540 [] t = "14:30" -> 870 [] OTHER -> 0

\* e comes no later than f by date and then by time, an event without a time
\* first on its date.
NoLaterThan(e, f) ==
    \/ DateValue(e.date) < DateValue(f.date)
    \/ /\ e.date = f.date
       /\ \/ ~Truthy(e.time)
          \/ Truthy(f.time) /\ TimeValue(e.time) <= TimeValue(f.time)

\* C23 (as claimed): after every successful add or update of an event the
\* calendar list is ordered ascending by date and then by time, also when it
\* mixes all-day events and events that have a time.
C23_ListOrderedByDateThenTime ==
    (calLog.op \in {"add", "updateByQuery"} /\ calLog.result) =>
        \A i, j \in 1..Len(cal.calendarEvents) :
            i < j => NoLaterThan(cal.calendarEvents[i], cal.calendarEvents[j])

(***************************************************************************)
(* Claims about the event resources (checked under SpecRes)                *)
(***************************************************************************)
\* One representation: a date and no dateTime, or a dateTime and no date.
IsAllDay(t) == Truthy(t.date) /\ t.dateTime = NoDateTime
IsTimed(t) == t.date = Null /\ t.dateTime /= NoDateTime

\* C11: every resource createEvent and updateEvent send has exactly one
\* representation in start and in end, the same in both: dateTime and no date
\* when the resulting event has a time, date and no dateTime when it has none.
\* The resulting event is the one the adapter returns; for createEvent it has a
\* time exactly when eventData has one, for an updateEvent that gives a date or a
\* time exactly when the time given (else the existing time) is non-empty, and
\* for any other update it keeps the existing representation.
C11_OneRepresentation ==
    adapterCall.op /= "none" =>
        LET sent == adapterCall.sent
            resulting == FromProvider(adapterCall.item)
            existing == adapterCall.existing
            updates == adapterCall.updates
            givenTime == IF updates.time /= Null THEN updates.time
                         ELSE FromProvider(existing).time
        IN  /\ IF Truthy(resulting.time)
               THEN IsTimed(sent.start) /\ IsTimed(sent.end)
               ELSE IsAllDay(sent.start) /\ IsAllDay(sent.end)
            /\ adapterCall.op = "createEvent" =>
                   (Truthy(resulting.time) <=> Truthy(adapterCall.eventData.time))
            /\ adapterCall.op = "updateEvent" =>
                   IF Truthy(updates.date) \/ Truthy(updates.time)
                   THEN Truthy(resulting.time) <=> Truthy(givenTime)
                   ELSE sent.start = existing.start /\ sent.end = existing.end

\* C11 witness: an update with an empty time and a date turned a timed event,
\* itself the result of an update of an all-day event, into an all-day one.
C11_Witness ==
    /\ adapterCall.op = "updateEvent"
    /\ IsTimed(adapterCall.existing.start)
    /\ adapterCall.existing.id = "F1"
    /\ adapterCall.updates.time = ""
    /\ IsAllDay(adapterCall.sent.start)
    /\ IsAllDay(adapterCall.sent.end)

(***************************************************************************)
(* Claims about GeminiService (checked under SpecChat)                     *)
(***************************************************************************)
\* The compared fields of settings, with the effective mime type.
ComparedFields(s) ==
    <<s.personality, s.temperature, s.topK, s.topP, s.seed,
      IF s.enableGoogleSearch /\ s.responseMimeType = ApplicationJson
      THEN TextPlain ELSE s.responseMimeType,
      s.enableGoogleSearch, s.disableThinking, s.googleClientId, s.googleApiKey>>

LastSend == chatLog.last.op = "send"
LastReply == chatLog.last.op = "reply" /\ ~chatLog.last.threw

\* C7: sendMessage creates a new chat session exactly when no session exists or
\* a compared setting (with the effective mime type) differs from the settings
\* the current session was created with; of two consecutive sendMessage calls
\* whose settings agree on the compared fields, the second creates none.
C7_NewSessionIffSettingsChanged ==
    LastSend =>
        LET op == chatLog.last
            s == Val(op.settings)
        IN  /\ op.created <=>
                  \/ op.sessionBefore = None
                  \/ ComparedFields(Val(op.sessionBefore).createdWith) /= ComparedFields(s)
            /\ op.created => op.session /= None /\ Val(op.session).createdWith = s
            /\ ~op.created => op.session = op.sessionBefore
            /\ (/\ op.prevSend /= None
                /\ ComparedFields(Val(op.prevSend).settings) = ComparedFields(s)) =>
                  ~op.created

\* C7 witness: a call whose settings ask for JSON with search enabled follows
\* one that created a session with settings equal on the compared fields, and
\* creates none.
C7_Witness ==
    /\ LastSend
    /\ chatLog.last.prevSend /= None
    /\ Val(chatLog.last.prevSend).created
    /\ Val(chatLog.last.settings).enableGoogleSearch
    /\ Val(chatLog.last.settings).responseMimeType = ApplicationJson
    /\ ComparedFields(Val(chatLog.last.prevSend).settings)
          = ComparedFields(Val(chatLog.last.settings))
    /\ ~chatLog.last.created

\* C8: a response carries a parsedCalendarAction only when the current session's
\* effective mime type is application/json and the reply (less an enclosing code
\* fence) is JSON that describes a calendar action; in particular never when the
\* session was created with search enabled; the reply's text is returned either
\* way.
C8_ActionOnlyFromJsonSession ==
    LastReply =>
        LET op == chatLog.last
            v == op.reply.body.value
            describesAction ==
                /\ ~op.reply.empty /\ op.reply.body.json /\ v.type = "object"
                /\ \/ v.action = "add_event" /\ v.event = "complete"
                   \/ v.action = "delete_event" /\ v.event_query \in {"complete", "no date"}
                   \/ /\ v.action = "update_event" /\ v.updates
                      /\ v.event_query \in {"complete", "no date"}
            jsonSession ==
                /\ op.session /= None
                /\ ComparedFields(Val(op.session).createdWith)[6] = ApplicationJson
            parsed == op.response.parsedCalendarAction
        IN  /\ parsed => jsonSession /\ describesAction
            /\ (op.session /= None /\ Val(op.session).createdWith.enableGoogleSearch) => ~parsed
            /\ op.response.text = op.reply

\* C8 witness: a valid action arrives in a session whose settings asked for JSON
\* with search enabled, and is returned as text only.
C8_Witness ==
    /\ LastReply
    /\ chatLog.last.session /= None
    /\ Val(chatLog.last.session).createdWith.enableGoogleSearch
    /\ Val(chatLog.last.session).createdWith.responseMimeType = ApplicationJson
    /\ chatLog.last.reply.body.value.action = "add_event"
    /\ chatLog.last.reply.body.value.event = "complete"
    /\ ~chatLog.last.response.parsedCalendarAction
    /\ chatLog.last.response.text = chatLog.last.reply

\* Google Search together with JSON output.
SearchWithJson(s) == s.enableGoogleSearch /\ s.responseMimeType = ApplicationJson

\* C20: Google Search and JSON output are never active together: the settings
\* every updateSettingsCallback call leaves (and saves) do not have
\* enableGoogleSearch with responseMimeType 'application/json', settings without
\* the combination never get it, and no chat session exists that was created
\* with the googleSearch tool and responseMimeType 'application/json'.
C20_SearchExcludesJson ==
    /\ [](gem.chat /= None =>
             ~(Val(gem.chat).googleSearch /\ Val(gem.chat).responseMimeType = ApplicationJson))
    /\ [][(settings' /= settings \/ ~SearchWithJson(settings)) => ~SearchWithJson(settings')]_vars

\* C20 witness: updateSettingsCallback was given search together with JSON
\* output and left search with text/plain, while the session in use had been
\* created from settings with both and was configured with text/plain.
C20_Witness ==
    /\ chatLog.last.op = "updateSettings"
    /\ SearchWithJson(Val(chatLog.last.settings))
    /\ settings.enableGoogleSearch
    /\ settings.responseMimeType = TextPlain
    /\ gem.chat /= None
    /\ SearchWithJson(Val(gem.chat).createdWith)
    /\ Val(gem.chat).responseMimeType = TextPlain

(***************************************************************************)
(* Claims about storageService (checked under SpecStore)                   *)
(***************************************************************************)
\* The last call was getInstanceData(id) and the entry under id was written by
\* saveInstanceData(id, d) or createNewInstance.
LastGetOfSaved ==
    /\ storeLog.last.op = "get"
    /\ storeLog.saved[storeLog.last.id] /= NoEntry
SavedData == storeLog.saved[storeLog.last.id][1]
GotData == storeLog.last.result.data
ReducedDocuments(documents) ==
    [i \in 1..Len(documents) |-> [documents[i] EXCEPT !.file = Null]]

\* C14 (as claimed): saveInstanceData(id, d) followed by getInstanceData(id)
\* returns settings, chat messages, calendar events and memory store equal to
\* those of d, and documents equal to d's reduced to id, name and textContent.
C14_RoundTrip ==
    LastGetOfSaved =>
        /\ storeLog.last.result.found
        /\ GotData.settings = SavedData.settings
        /\ GotData.chatMessages = SavedData.chatMessages
        /\ GotData.calendarEvents = SavedData.calendarEvents
        /\ GotData.memoryStore = SavedData.memoryStore
        /\ GotData.documents = ReducedDocuments(SavedData.documents)

\* The memory store getInstanceData returns for a saved memory store m.
RepairedInformation(m, instanceName) ==
    CASE ~Truthy(m.pin) -> m.information
      [] \E i \in 1..Len(m.information) : m.information[i].pin = m.pin -> m.information
      [] m.information = EmptyString -> <<PinLine(m.pin), NameLine(instanceName)>>
      [] Head(m.information).atStart /\ Head(m.information).pin /= Null
         /\ Head(m.information).rest = "" /\ Len(m.information) > 1 ->
            <<PinLine(m.pin)>> \o Tail(m.information)
      [] Head(m.information).atStart /\ Head(m.information).pin /= Null
         /\ Head(m.information).rest = "" ->
            <<PinLine(m.pin), TextLine("")>>
      [] Head(m.information).atStart /\ Head(m.information).pin /= Null ->
            <<PinLine(m.pin), TextLine(Head(m.information).rest)>> \o Tail(m.information)
      [] OTHER -> <<PinLine(m.pin)>> \o m.information

\* C14 (amended): saveInstanceData(id, d) followed by getInstanceData(id) returns
\* settings, chat messages and calendar events equal to those of d, documents
\* equal to d's reduced to id, name and textContent, and a memory store equal to
\* d's except that, when d has a PIN and its information does not contain
\* 'PIN: <pin>', the information returned is the line 'PIN: <pin>' followed by
\* d's information without a leading 'PIN: dddd' (by the name line when d's
\* information is empty).
C14_RoundTripPinRestored ==
    LastGetOfSaved =>
        /\ storeLog.last.result.found
        /\ GotData.settings = SavedData.settings
        /\ GotData.chatMessages = SavedData.chatMessages
        /\ GotData.calendarEvents = SavedData.calendarEvents
        /\ GotData.documents = ReducedDocuments(SavedData.documents)
        /\ GotData.memoryStore =
               [SavedData.memoryStore EXCEPT
                   !.information = RepairedInformation(SavedData.memoryStore,
                                                       SavedData.settings.instanceName)]

\* C14 witness: data saved with PIN 1234 and an information that starts with the
\* line 'PIN: 5678' was read back with 'PIN: 1234' in its place, its documents
\* without their File.
C14_Witness ==
    /\ LastGetOfSaved
    /\ SavedData.memoryStore.pin = "1234"
    /\ SavedData.memoryStore.information = <<PinLine("5678"), TextLine("likes tea")>>
    /\ GotData.memoryStore.information = <<PinLine("1234"), TextLine("likes tea")>>
    /\ Len(SavedData.documents) = 2
    /\ SavedData.documents[2].file /= Null
    /\ GotData.documents[2].file = Null

(***************************************************************************)
(* Claims about the saves of instance data (checked under SpecPersist)     *)
(***************************************************************************)
\* C15 (as claimed): after any sequence of partial saves issued through
\* onSaveInstanceData, several from one handler included, the stored instance
\* data holds for each field the value of the latest save of that field.
C15_NoLostUpdate ==
    \A f \in DataFields : persist.stored[f] = persist.latest[f]

(***************************************************************************)
(* Claims about handleGoogleSignOut (checked under SpecSess)               *)
(***************************************************************************)
\* C22 (as claimed): after handleGoogleSignOut the calendar list and the
\* persisted calendar events contain no event with isGoogleEvent=true, and
\* contain every local event that was present before sign-out, unchanged and in
\* the same order.
C22_SignOutLeavesLocalEvents ==
    sess.last.op = "signOut" =>
        /\ sess.calendarEvents = notGoogleEvents(sess.last.before)
        /\ sess.stored = notGoogleEvents(sess.last.before)
====
